---------------------------- MODULE Spec2Model ----------------------------
(***************************************************************************)
(* Package store and target variable router of newt.                       *)
(*                                                                         *)
(*   newt/cli/target_cmds.go   : targetSetCmd, targetAmendCmd,             *)
(*                               amendSysCfg, amendBuildFlags              *)
(*   newt/pkg/localpackage.go  : LocalPackage (Load, Save, SaveSyscfg),    *)
(*                               ReadLocalPackages                         *)
(*                                                                         *)
(* A Go string is a sequence of one-character strings, so that the string  *)
(* functions the code calls (Fields, TrimSuffix, HasSuffix, SplitN, ...)   *)
(* are computed, character by character, as the library computes them.     *)
(***************************************************************************)
EXTENDS Integers, Sequences, FiniteSets, TLC

(***************************************************************************)
(* strings                                                                 *)
(***************************************************************************)

Range(s) == {s[i] : i \in DOMAIN s}

InSeq(x, s) == \E i \in DOMAIN s : s[i] = x

\* strings.HasPrefix / strings.HasSuffix
HasPrefix(s, p) == Len(p) <= Len(s) /\ SubSeq(s, 1, Len(p)) = p

HasSuffix(s, p) == Len(p) <= Len(s) /\ SubSeq(s, Len(s) - Len(p) + 1, Len(s)) = p

\* strings.TrimPrefix / strings.TrimSuffix: one occurrence is removed
TrimPrefix(s, p) == IF HasPrefix(s, p) THEN SubSeq(s, Len(p) + 1, Len(s)) ELSE s

TrimSuffix(s, p) == IF HasSuffix(s, p) THEN SubSeq(s, 1, Len(s) - Len(p)) ELSE s

\* unicode.IsSpace, on the characters of the model's alphabet
IsSpace(c) == c = " "

RECURSIVE TrimLeft(_)
TrimLeft(s) == IF s # <<>> /\ IsSpace(Head(s)) THEN TrimLeft(Tail(s)) ELSE s

RECURSIVE TrimRight(_)
TrimRight(s) ==
    IF s # <<>> /\ IsSpace(s[Len(s)]) THEN TrimRight(SubSeq(s, 1, Len(s) - 1)) ELSE s

\* strings.TrimSpace
TrimSpace(s) == TrimRight(TrimLeft(s))

\* index of the first occurrence of character c in s at or after i; 0: none
RECURSIVE IndexFrom(_, _, _)
IndexFrom(s, c, i) ==
    IF i > Len(s) THEN 0 ELSE IF s[i] = c THEN i ELSE IndexFrom(s, c, i + 1)

\* strings.Split(s, c) for a one-character separator
RECURSIVE Split(_, _)
Split(s, c) ==
    LET i == IndexFrom(s, c, 1)
    IN  IF i = 0 THEN <<s>>
        ELSE <<SubSeq(s, 1, i - 1)>> \o Split(SubSeq(s, i + 1, Len(s)), c)

\* strings.SplitN(s, c, 2)
SplitN2(s, c) ==
    LET i == IndexFrom(s, c, 1)
    IN  IF i = 0 THEN <<s>> ELSE <<SubSeq(s, 1, i - 1), SubSeq(s, i + 1, Len(s))>>

\* strings.Join(parts, c)
RECURSIVE Join(_, _)
Join(parts, c) ==
    IF parts = <<>> THEN <<>>
    ELSE IF Len(parts) = 1 THEN parts[1]
    ELSE parts[1] \o <<c>> \o Join(Tail(parts), c)

\* strings.Fields: the maximal runs of non-space characters
RECURSIVE FieldsFrom(_, _)
FieldsFrom(s, cur) ==
    IF s = <<>> THEN (IF cur = <<>> THEN <<>> ELSE <<cur>>)
    ELSE IF IsSpace(Head(s))
         THEN (IF cur = <<>> THEN <<>> ELSE <<cur>>) \o FieldsFrom(Tail(s), <<>>)
         ELSE FieldsFrom(Tail(s), Append(cur, Head(s)))

Fields(s) == FieldsFrom(s, <<>>)


(***************************************************************************)
(* names                                                                   *)
(***************************************************************************)

S_target == <<"t", "a", "r", "g", "e", "t">>
S_targetDot == S_target \o <<".">>
S_pkgDot == <<"p", "k", "g", ".">>
S_aflags == <<"a", "f", "l", "a", "g", "s">>
S_cflags == <<"c", "f", "l", "a", "g", "s">>
S_cxxflags == <<"c", "x", "x", "f", "l", "a", "g", "s">>
S_lflags == <<"l", "f", "l", "a", "g", "s">>
S_syscfg == <<"s", "y", "s", "c", "f", "g">>
S_app == <<"a", "p", "p">>
S_bsp == <<"b", "s", "p">>
S_loader == <<"l", "o", "a", "d", "e", "r">>
S_build_profile == <<"b", "u", "i", "l", "d", "_", "p", "r", "o", "f", "i", "l", "e">>
S_lib == <<"l", "i", "b">>
S_transient == <<"t", "r", "a", "n", "s", "i", "e", "n", "t">>
S_unittest == <<"u", "n", "i", "t", "t", "e", "s", "t">>
S_compiler == <<"c", "o", "m", "p", "i", "l", "e", "r">>
S_sdk == <<"s", "d", "k">>
S_generated == <<"g", "e", "n", "e", "r", "a", "t", "e", "d">>
S_src == <<"s", "r", "c">>
S_include == <<"i", "n", "c", "l", "u", "d", "e">>
S_bin == <<"b", "i", "n">>

K_name == S_pkgDot \o <<"n", "a", "m", "e">>
K_type == S_pkgDot \o <<"t", "y", "p", "e">>
K_description == S_pkgDot \o <<"d", "e", "s", "c", "r", "i", "p", "t", "i", "o", "n">>
K_author == S_pkgDot \o <<"a", "u", "t", "h", "o", "r">>
K_homepage == S_pkgDot \o <<"h", "o", "m", "e", "p", "a", "g", "e">>
K_keywords == S_pkgDot \o <<"k", "e", "y", "w", "o", "r", "d", "s">>
K_deps == S_pkgDot \o <<"d", "e", "p", "s">>
K_link == S_pkgDot \o <<"l", "i", "n", "k">>
K_subpriority == S_pkgDot \o <<"s", "u", "b", "p", "r", "i", "o", "r", "i", "t", "y">>
K_syscfgVals == S_syscfg \o <<".", "v", "a", "l", "s">>
K_syscfgDefs == S_syscfg \o <<".", "d", "e", "f", "s">>

\* target variables that can have values amended with the amend command
amendVars == <<S_aflags, S_cflags, S_cxxflags, S_lflags, S_syscfg>>

setVars == <<S_aflags, S_app, S_build_profile, S_bsp, S_cflags,
             S_cxxflags, S_lflags, S_loader, S_syscfg>>

PACKAGE_FILE_NAME == <<"p", "k", "g", ".", "y", "m", "l">>
SYSCFG_YAML_FILENAME == <<"s", "y", "s", "c", "f", "g", ".", "y", "m", "l">>
TARGET_FILENAME == <<"t", "a", "r", "g", "e", "t", ".", "y", "m", "l">>

\* the package types in their order (interfaces.PackageType is their index)
PackageTypeNames ==
    <<S_compiler, S_sdk, S_generated, S_lib, S_app, S_transient, S_bsp,
      S_unittest, S_target>>

TypeOf(n) == CHOOSE i \in DOMAIN PackageTypeNames : PackageTypeNames[i] = n

PACKAGE_TYPE_LIB == TypeOf(S_lib)
PACKAGE_TYPE_TRANSIENT == TypeOf(S_transient)
PACKAGE_TYPE_BSP == TypeOf(S_bsp)
PACKAGE_TYPE_TARGET == TypeOf(S_target)

PACKAGE_SUBPRIO_NUM == 50

(***************************************************************************)
(* ycfg.YCfg: a document is a function from its keys to their values       *)
(***************************************************************************)

NewYCfg == <<>>

Replace(doc, key, val) ==
    [k \in DOMAIN doc \cup {key} |-> IF k = key THEN val ELSE doc[k]]

Delete(doc, key) == [k \in DOMAIN doc \ {key} |-> doc[k]]

\* Replace(key, nil): the variable is deleted
ReplaceNil(doc, key) == Delete(doc, key)

Clear(doc) == <<>>

\* the typed reads; a missing key reads as the zero value
GetValString(doc, key) == IF key \in DOMAIN doc THEN doc[key] ELSE <<>>

GetValInt(doc, key) == IF key \in DOMAIN doc THEN doc[key] ELSE 0

GetValStringSlice(doc, key) == IF key \in DOMAIN doc THEN doc[key] ELSE <<>>

\* isNil: the Go map is nil (no such key)
GetValStringMapString(doc, key) ==
    IF key \in DOMAIN doc THEN [isNil |-> FALSE, m |-> doc[key]]
    ELSE [isNil |-> TRUE, m |-> <<>>]

\* util.StringMapStringToItfMapItf: a nil map converts to an empty one
StringMapStringToItfMapItf(sm) == sm.m

MapSet(m, k, v) == [x \in DOMAIN m \cup {k} |-> IF x = k THEN v ELSE m[x]]

MapDelete(m, k) == [x \in DOMAIN m \ {k} |-> m[x]]

(***************************************************************************)
(* paths                                                                   *)
(***************************************************************************)

\* the segments of a path once "", "." and ".." are resolved
RECURSIVE CleanSegs(_, _, _)
CleanSegs(segs, stack, rooted) ==
    IF segs = <<>> THEN stack
    ELSE LET x == Head(segs)
             r == Tail(segs)
         IN  IF x = <<>> \/ x = <<".">> THEN CleanSegs(r, stack, rooted)
             ELSE IF x = <<".", ".">>
                  THEN IF stack # <<>> /\ stack[Len(stack)] # <<".", ".">>
                       THEN CleanSegs(r, SubSeq(stack, 1, Len(stack) - 1), rooted)
                       ELSE IF rooted THEN CleanSegs(r, stack, rooted)
                       ELSE CleanSegs(r, Append(stack, x), rooted)
                  ELSE CleanSegs(r, Append(stack, x), rooted)

\* filepath.ToSlash(filepath.Clean(path)), on a system whose separator is "/"
Clean(path) ==
    LET rooted == path # <<>> /\ path[1] = "/"
        out == (IF rooted THEN <<"/">> ELSE <<>>)
                   \o Join(CleanSegs(Split(path, "/"), <<>>, rooted), "/")
    IN  IF out = <<>> THEN <<".">> ELSE out

\* filepath.Join(a, b): the non-empty elements joined by "/" and cleaned
PathJoin(a, b) ==
    IF a = <<>> /\ b = <<>> THEN <<>>
    ELSE IF a = <<>> THEN Clean(b)
    ELSE IF b = <<>> THEN Clean(a)
    ELSE Clean(a \o <<"/">> \o b)

(***************************************************************************)
(* files                                                                   *)
(*                                                                         *)
(* A yml file is the sequence of its entries, [key, kind, val]: a scalar   *)
(* holds an escaped string, a sequence block a list of escaped strings,    *)
(* any other kind the value as the document layer serializes it.           *)
(***************************************************************************)

NoFile == [exists |-> FALSE, ok |-> FALSE, entries |-> <<>>]

CorruptFile == [exists |-> TRUE, ok |-> FALSE, entries |-> <<>>]

YmlFile(entries) == [exists |-> TRUE, ok |-> TRUE, entries |-> entries]

Scalar(key, val) == [key |-> key, kind |-> "scalar", val |-> val]

Block(key, val) == [key |-> key, kind |-> "seq", val |-> val]

Native(key, val) == [key |-> key, kind |-> "native", val |-> val]

\* the characters that make yaml.EscapeString quote a scalar
YamlSpecial == {":", "=", "\"", "#", "-"}

\* yaml.EscapeString
EscapeString(s) ==
    IF Range(s) \cap YamlSpecial # {} THEN <<"\"">> \o s \o <<"\"">> ELSE s

\* what the reader makes of an escaped scalar
UnescapeString(s) ==
    IF Len(s) >= 2 /\ s[1] = "\"" /\ s[Len(s)] = "\"" THEN SubSeq(s, 2, Len(s) - 1)
    ELSE s

EntryValue(e) ==
    IF e.kind = "scalar" THEN UnescapeString(e.val)
    ELSE IF e.kind = "seq" THEN [i \in DOMAIN e.val |-> UnescapeString(e.val[i])]
    ELSE e.val

\* config.ReadFile: the document of a file, its last entry for a key winning
ReadFile(file) ==
    IF ~file.exists THEN [err |-> "notexist", doc |-> NewYCfg]
    ELSE IF ~file.ok THEN [err |-> "parse", doc |-> NewYCfg]
    ELSE LET es == file.entries
             keys == {es[i].key : i \in DOMAIN es}
             last(k) == CHOOSE i \in DOMAIN es :
                            /\ es[i].key = k
                            /\ \A j \in DOMAIN es : es[j].key = k => j <= i
         IN  [err |-> "none", doc |-> [k \in keys |-> EntryValue(es[last(k)])]]

\* a set as a sequence, in the order the serializer walks it
RECURSIVE SetToSeq(_)
SetToSeq(S) ==
    IF S = {} THEN <<>>
    ELSE LET x == CHOOSE y \in S : TRUE IN <<x>> \o SetToSeq(S \ {x})

\* YCfg.YAML: the whole document, every key of it
YAML(doc) ==
    LET ks == SetToSeq(DOMAIN doc)
    IN  YmlFile([i \in DOMAIN ks |-> Native(ks[i], doc[ks[i]])])

(***************************************************************************)
(* pkg.LocalPackage                                                        *)
(*                                                                         *)
(* A package directory holds the files pkgYml, syscfgYml and targetYml.    *)
(***************************************************************************)

EmptyDesc == [Author |-> <<>>, Homepage |-> <<>>, Description |-> <<>>, Keywords |-> <<>>]

PkgYamlPath(basePath) == basePath \o <<"/">> \o PACKAGE_FILE_NAME

SyscfgYamlPath(basePath) == basePath \o <<"/">> \o SYSCFG_YAML_FILENAME

NewLocalPackage(pkgDir) ==
    [name |-> <<>>,
     basePath |-> Clean(pkgDir),
     packageType |-> 1,
     subPriority |-> 0,
     linkedName |-> <<>>,
     desc |-> EmptyDesc,
     PkgY |-> NewYCfg,
     SyscfgY |-> NewYCfg,
     cfgFilenames |-> <<>>]

readDesc(yc) ==
    [Author |-> GetValString(yc, K_author),
     Homepage |-> GetValString(yc, K_homepage),
     Description |-> GetValString(yc, K_description),
     Keywords |-> GetValStringSlice(yc, K_keywords)]

\* sequenceString with the key written above an empty list too
sequenceStringAlways(pkg, key) ==
    LET vals == GetValStringSlice(pkg.PkgY, key)
    IN  <<Block(key, [i \in DOMAIN vals |-> EscapeString(vals[i])])>>

\* the sequence block of one key, nothing for an empty list
sequenceString(pkg, key) ==
    LET vals == GetValStringSlice(pkg.PkgY, key)
    IN  IF vals = <<>> THEN <<>>
        ELSE <<Block(key, [i \in DOMAIN vals |-> EscapeString(vals[i])])>>

\* Save with the author written at pkg.homepage and the homepage at pkg.author
SaveSwapped(pkg) ==
    YmlFile(<<Scalar(K_name, EscapeString(pkg.name)),
              Scalar(K_type, EscapeString(PackageTypeNames[pkg.packageType])),
              Scalar(K_description, EscapeString(pkg.desc.Description)),
              Scalar(K_author, EscapeString(pkg.desc.Homepage)),
              Scalar(K_homepage, EscapeString(pkg.desc.Author))>>
            \o sequenceString(pkg, K_deps)
            \o sequenceString(pkg, S_pkgDot \o S_aflags)
            \o sequenceString(pkg, S_pkgDot \o S_cflags)
            \o sequenceString(pkg, S_pkgDot \o S_cxxflags)
            \o sequenceString(pkg, S_pkgDot \o S_lflags))

\* LocalPackage.Save: the pkg.yml it writes
Save(pkg) ==
    YmlFile(<<Scalar(K_name, EscapeString(pkg.name)),
              Scalar(K_type, EscapeString(PackageTypeNames[pkg.packageType])),
              Scalar(K_description, EscapeString(pkg.desc.Description)),
              Scalar(K_author, EscapeString(pkg.desc.Author)),
              Scalar(K_homepage, EscapeString(pkg.desc.Homepage))>>
            \o sequenceString(pkg, K_deps)
            \o sequenceString(pkg, S_pkgDot \o S_aflags)
            \o sequenceString(pkg, S_pkgDot \o S_cflags)
            \o sequenceString(pkg, S_pkgDot \o S_cxxflags)
            \o sequenceString(pkg, S_pkgDot \o S_lflags))

\* LocalPackage.SaveSyscfg: the syscfg.yml it writes
SaveSyscfg(pkg) == YAML(pkg.SyscfgY)

matchNamePath(name, path) ==
    LET names == Split(name, "/")
        joined == Join(names, "/")
    IN  HasSuffix(path, joined)

\* LocalPackage.Load on the files of its directory: the error, "none" for a
\* package that loads, and the package as Load left it
Load(pkg, dir) ==
    LET rf == ReadFile(dir.pkgYml)
        p1 == [pkg EXCEPT !.PkgY = rf.doc,
                          !.cfgFilenames = Append(@, PkgYamlPath(pkg.basePath)),
                          !.name = GetValString(rf.doc, K_name)]
        typeString == GetValString(p1.PkgY, K_type)
        found == \E i \in DOMAIN PackageTypeNames : PackageTypeNames[i] = typeString
        p2 == [p1 EXCEPT !.packageType =
                   IF Len(typeString) > 0 /\ found THEN TypeOf(typeString)
                   ELSE PACKAGE_TYPE_LIB]
        n == GetValString(p2.PkgY, K_link)
        subPriority == GetValInt(p2.PkgY, K_subpriority)
        sf == ReadFile(dir.syscfgYml)
        p3 == [p2 EXCEPT !.subPriority = subPriority, !.desc = readDesc(p2.PkgY)]
        p4 == [p3 EXCEPT !.SyscfgY = sf.doc,
                         !.cfgFilenames = Append(@, SyscfgYamlPath(pkg.basePath))]
    IN  IF rf.err # "none" THEN [err |-> rf.err, pkg |-> pkg]
        ELSE IF p1.name = <<>> THEN [err |-> "noname", pkg |-> p1]
        ELSE IF ~matchNamePath(p1.name, p1.basePath) THEN [err |-> "badname", pkg |-> p1]
        ELSE IF Len(typeString) > 0 /\ ~found THEN [err |-> "badtype", pkg |-> p2]
        ELSE IF p2.packageType = PACKAGE_TYPE_TRANSIENT
             THEN IF Len(n) = 0 THEN [err |-> "nolink", pkg |-> p2]
                  ELSE [err |-> "none", pkg |-> [p2 EXCEPT !.linkedName = n]]
        ELSE IF subPriority >= PACKAGE_SUBPRIO_NUM THEN [err |-> "subprio", pkg |-> p2]
        ELSE IF subPriority > 0 /\ p2.packageType >= PACKAGE_TYPE_BSP
             THEN [err |-> "subpriotype", pkg |-> p2]
        ELSE IF sf.err # "none" /\ sf.err # "notexist"
             THEN [err |-> sf.err, pkg |-> [p3 EXCEPT !.SyscfgY = sf.doc]]
        ELSE [err |-> "none", pkg |-> p4]

LoadLocalPackage(pkgDir, dir) == Load(NewLocalPackage(pkgDir), dir)

(***************************************************************************)
(* target.Target: the base package and the document of target.yml          *)
(***************************************************************************)

\* the target of a directory, as the project load leaves it in memory
LoadTarget(pkgDir, dir) ==
    [pkg |-> LoadLocalPackage(pkgDir, dir).pkg, TargetY |-> ReadFile(dir.targetYml).doc]

\* Target.Save: pkg.yml, target.yml and syscfg.yml are written
TargetSave(t) ==
    [pkgYml |-> Save(t.pkg), targetYml |-> YAML(t.TargetY), syscfgYml |-> SaveSyscfg(t.pkg)]

(***************************************************************************)
(* syscfg.KeyValueFromStr: "k1=v1:k2=v2:..." as a map                      *)
(***************************************************************************)

Digits == {"0", "1", "2", "3", "4", "5", "6", "7", "8", "9"}

IsNumber(f) == f # <<>> /\ Range(f) \subseteq Digits

RECURSIVE KeyValueFields(_, _)
KeyValueFields(fields, m) ==
    IF fields = <<>> THEN [err |-> FALSE, m |-> m]
    ELSE LET f == Head(fields)
             kv == SplitN2(f, "=")
         IN  IF IsNumber(f) THEN [err |-> TRUE, m |-> <<>>]
             ELSE IF Len(kv) = 1 THEN KeyValueFields(Tail(fields), MapSet(m, f, <<"1">>))
             ELSE KeyValueFields(Tail(fields), MapSet(m, kv[1], kv[2]))

KeyValueFromStr(str) ==
    IF TrimSpace(str) = <<>> THEN [err |-> FALSE, m |-> <<>>]
    ELSE KeyValueFields(Split(str, ":"), <<>>)

(***************************************************************************)
(* the amend steps (cli/target_cmds.go)                                    *)
(***************************************************************************)

\* the loop of amendSysCfg over the parsed pairs, in the order of the keys
RECURSIVE AmendSysVals(_, _, _, _)
AmendSysVals(sysVals, amendSysVals, ks, amendDelete) ==
    IF ks = <<>> THEN sysVals
    ELSE LET k == Head(ks)
         IN  AmendSysVals(IF amendDelete THEN MapDelete(sysVals, k)
                          ELSE MapSet(sysVals, k, amendSysVals[k]),
                          amendSysVals, Tail(ks), amendDelete)

\* amendSysCfg without the test of amendDelete where syscfg.vals is missing
amendSysCfgNoVals(value, t, amendDelete) ==
    LET sv == GetValStringMapString(t.pkg.SyscfgY, K_syscfgVals)
        amendSysVals == KeyValueFromStr(value)
        sysVals ==
            IF ~sv.isNil
            THEN [isNil |-> FALSE,
                  m |-> AmendSysVals(sv.m, amendSysVals.m,
                                     SetToSeq(DOMAIN amendSysVals.m), amendDelete)]
            ELSE [isNil |-> FALSE, m |-> amendSysVals.m]
        itfMap == StringMapStringToItfMapItf(sysVals)
    IN  IF amendSysVals.err THEN [err |-> TRUE, t |-> t]
        ELSE [err |-> FALSE,
              t |-> [t EXCEPT !.pkg.SyscfgY = Replace(@, K_syscfgVals, itfMap)]]

\* amendSysCfg with the syscfg document cleared before syscfg.vals is put in
\* it, as the set of syscfg clears it
amendSysCfgCleared(value, t, amendDelete) ==
    LET sv == GetValStringMapString(t.pkg.SyscfgY, K_syscfgVals)
        amendSysVals == KeyValueFromStr(value)
        sysVals ==
            IF ~sv.isNil
            THEN [isNil |-> FALSE,
                  m |-> AmendSysVals(sv.m, amendSysVals.m,
                                     SetToSeq(DOMAIN amendSysVals.m), amendDelete)]
            ELSE IF ~amendDelete THEN [isNil |-> FALSE, m |-> amendSysVals.m]
            ELSE sv
        itfMap == StringMapStringToItfMapItf(sysVals)
    IN  IF amendSysVals.err THEN [err |-> TRUE, t |-> t]
        ELSE [err |-> FALSE,
              t |-> [t EXCEPT !.pkg.SyscfgY = Replace(Clear(@), K_syscfgVals, itfMap)]]

\* amendSysCfg: [err, t]
amendSysCfg(value, t, amendDelete) ==
    LET sv == GetValStringMapString(t.pkg.SyscfgY, K_syscfgVals)
        amendSysVals == KeyValueFromStr(value)
        sysVals ==
            IF ~sv.isNil
            THEN [isNil |-> FALSE,
                  m |-> AmendSysVals(sv.m, amendSysVals.m,
                                     SetToSeq(DOMAIN amendSysVals.m), amendDelete)]
            ELSE IF ~amendDelete THEN [isNil |-> FALSE, m |-> amendSysVals.m]
            ELSE sv
        itfMap == StringMapStringToItfMapItf(sysVals)
    IN  IF amendSysVals.err THEN [err |-> TRUE, t |-> t]
        ELSE [err |-> FALSE,
              t |-> [t EXCEPT !.pkg.SyscfgY = Replace(@, K_syscfgVals, itfMap)]]

\* the add loop of amendBuildFlags: a flag is appended unless curFlags holds it
RECURSIVE AddFlags(_, _, _)
AddFlags(newFlags, curFlags, amendFlags) ==
    IF amendFlags = <<>> THEN newFlags
    ELSE LET amendVal == Head(amendFlags)
             exist == \E i \in DOMAIN curFlags : amendVal = curFlags[i]
         IN  AddFlags(IF ~exist THEN Append(newFlags, amendVal) ELSE newFlags,
                      curFlags, Tail(amendFlags))

\* the delete loop of amendBuildFlags: a flag is kept unless amendFlags holds it
RECURSIVE DeleteFlags(_, _, _)
DeleteFlags(newFlags, curFlags, amendFlags) ==
    IF curFlags = <<>> THEN newFlags
    ELSE LET curVal == Head(curFlags)
             exist == \E i \in DOMAIN amendFlags : amendFlags[i] = curVal
         IN  DeleteFlags(IF ~exist THEN Append(newFlags, curVal) ELSE newFlags,
                         Tail(curFlags), amendFlags)

\* amendBuildFlags with the add loop testing the list it is building, so that a
\* flag given twice is appended once
RECURSIVE AddFlagsOnce(_, _)
AddFlagsOnce(newFlags, amendFlags) ==
    IF amendFlags = <<>> THEN newFlags
    ELSE AddFlagsOnce(IF InSeq(Head(amendFlags), newFlags) THEN newFlags
                      ELSE Append(newFlags, Head(amendFlags)),
                      Tail(amendFlags))

amendBuildFlagsOnce(kv, t, amendDelete) ==
    LET pkgVar == S_pkgDot \o kv[1]
        curFlags == GetValStringSlice(t.pkg.PkgY, pkgVar)
        amendFlags == Fields(kv[2])
        newFlags == IF ~amendDelete THEN AddFlagsOnce(curFlags, amendFlags)
                    ELSE DeleteFlags(<<>>, curFlags, amendFlags)
    IN  [err |-> FALSE, t |-> [t EXCEPT !.pkg.PkgY = Replace(@, pkgVar, newFlags)]]

\* amendBuildFlags: [err, t]
amendBuildFlags(kv, t, amendDelete) ==
    LET pkgVar == S_pkgDot \o kv[1]
        curFlags == GetValStringSlice(t.pkg.PkgY, pkgVar)
        amendFlags == Fields(kv[2])
        newFlags == IF ~amendDelete THEN AddFlags(curFlags, curFlags, amendFlags)
                    ELSE DeleteFlags(<<>>, curFlags, amendFlags)
    IN  [err |-> FALSE, t |-> [t EXCEPT !.pkg.PkgY = Replace(@, pkgVar, newFlags)]]

(***************************************************************************)
(* targetSetCmd                                                            *)
(***************************************************************************)

\* ParseSetArg without the "target." it puts before a name that lacks it
ParseSetArgAsWritten(arg) ==
    LET kv == SplitN2(arg, "=")
        key == TrimPrefix(kv[1], S_targetDot)
        supported == InSeq(key, setVars)
    IN  IF ~supported THEN [err |-> "invalid", kv |-> <<>>]
        ELSE IF Len(kv) = 1 THEN [err |-> "novalue", kv |-> <<>>]
        ELSE [err |-> "none", kv |-> <<kv[1], TrimSuffix(kv[2], <<"/">>)>>]

\* one turn of the parsing loop of targetSetCmd: [err, kv]
ParseSetArg(arg) ==
    LET kv == SplitN2(arg, "=")
        key == TrimPrefix(kv[1], S_targetDot)
        supported == InSeq(key, setVars)
        kv0 == IF ~HasPrefix(kv[1], S_targetDot) THEN S_targetDot \o kv[1] ELSE kv[1]
    IN  IF ~supported THEN [err |-> "invalid", kv |-> <<>>]
        ELSE IF Len(kv) = 1 THEN [err |-> "novalue", kv |-> <<>>]
        ELSE [err |-> "none", kv |-> <<kv0, TrimSuffix(kv[2], <<"/">>)>>]

\* the parsing loop: it ends the command at the first argument it rejects
RECURSIVE ParseSetArgs(_, _)
ParseSetArgs(args, vars) ==
    IF args = <<>> THEN [err |-> "none", vars |-> vars]
    ELSE LET p == ParseSetArg(Head(args))
         IN  IF p.err # "none" THEN [err |-> p.err, vars |-> vars]
             ELSE ParseSetArgs(Tail(args), Append(vars, p.kv))

SetFlagKeys ==
    {S_targetDot \o S_cflags, S_targetDot \o S_cxxflags,
     S_targetDot \o S_lflags, S_targetDot \o S_aflags}

\* SetVar without the Clear of the syscfg document
SetVarNoClear(kv, t) ==
    IF kv[1] = S_targetDot \o S_syscfg
    THEN LET m == KeyValueFromStr(kv[2])
             itfMap == StringMapStringToItfMapItf(m)
         IN  IF m.err THEN [err |-> TRUE, t |-> t]
             ELSE [err |-> FALSE,
                   t |-> [t EXCEPT !.pkg.SyscfgY = Replace(@, K_syscfgVals, itfMap)]]
    ELSE IF kv[1] \in SetFlagKeys
    THEN LET key == S_pkgDot \o TrimPrefix(kv[1], S_targetDot)
         IN  IF kv[2] = <<>>
             THEN [err |-> FALSE, t |-> [t EXCEPT !.pkg.PkgY = ReplaceNil(@, key)]]
             ELSE [err |-> FALSE,
                   t |-> [t EXCEPT !.pkg.PkgY = Replace(@, key, Fields(kv[2]))]]
    ELSE IF kv[2] = <<>>
         THEN [err |-> FALSE, t |-> [t EXCEPT !.TargetY = Delete(@, kv[1])]]
         ELSE [err |-> FALSE, t |-> [t EXCEPT !.TargetY = Replace(@, kv[1], kv[2])]]

\* SetVar with the flag variables tested for tokens instead of for the empty
\* string
SetVarNoTokens(kv, t) ==
    IF kv[1] = S_targetDot \o S_syscfg
    THEN LET cleared == [t EXCEPT !.pkg.SyscfgY = Clear(@)]
             m == KeyValueFromStr(kv[2])
             itfMap == StringMapStringToItfMapItf(m)
         IN  IF m.err THEN [err |-> TRUE, t |-> cleared]
             ELSE [err |-> FALSE,
                   t |-> [cleared EXCEPT !.pkg.SyscfgY = Replace(@, K_syscfgVals, itfMap)]]
    ELSE IF kv[1] \in SetFlagKeys
    THEN LET key == S_pkgDot \o TrimPrefix(kv[1], S_targetDot)
         IN  IF Fields(kv[2]) = <<>>
             THEN [err |-> FALSE, t |-> [t EXCEPT !.pkg.PkgY = ReplaceNil(@, key)]]
             ELSE [err |-> FALSE,
                   t |-> [t EXCEPT !.pkg.PkgY = Replace(@, key, Fields(kv[2]))]]
    ELSE IF kv[2] = <<>>
         THEN [err |-> FALSE, t |-> [t EXCEPT !.TargetY = Delete(@, kv[1])]]
         ELSE [err |-> FALSE, t |-> [t EXCEPT !.TargetY = Replace(@, kv[1], kv[2])]]

\* one turn of the setting loop of targetSetCmd: [err, t]
SetVar(kv, t) ==
    IF kv[1] = S_targetDot \o S_syscfg
    THEN LET cleared == [t EXCEPT !.pkg.SyscfgY = Clear(@)]
             m == KeyValueFromStr(kv[2])
             itfMap == StringMapStringToItfMapItf(m)
         IN  IF m.err THEN [err |-> TRUE, t |-> cleared]
             ELSE [err |-> FALSE,
                   t |-> [cleared EXCEPT !.pkg.SyscfgY = Replace(@, K_syscfgVals, itfMap)]]
    ELSE IF kv[1] \in SetFlagKeys
    THEN LET key == S_pkgDot \o TrimPrefix(kv[1], S_targetDot)
         IN  IF kv[2] = <<>>
             THEN [err |-> FALSE, t |-> [t EXCEPT !.pkg.PkgY = ReplaceNil(@, key)]]
             ELSE [err |-> FALSE,
                   t |-> [t EXCEPT !.pkg.PkgY = Replace(@, key, Fields(kv[2]))]]
    ELSE IF kv[2] = <<>>
         THEN [err |-> FALSE, t |-> [t EXCEPT !.TargetY = Delete(@, kv[1])]]
         ELSE [err |-> FALSE, t |-> [t EXCEPT !.TargetY = Replace(@, kv[1], kv[2])]]

\* the record of one turn of a setting or amending loop
StepOf(kv, before, r) ==
    [var |-> kv[1], value |-> kv[2], before |-> before, after |-> r.t, err |-> r.err]

\* the setting loop: it ends the command at the first value that does not parse
RECURSIVE SetVars(_, _, _)
SetVars(vars, t, log) ==
    IF vars = <<>> THEN [err |-> FALSE, t |-> t, log |-> log]
    ELSE LET r == SetVar(Head(vars), t)
             l == Append(log, StepOf(Head(vars), t, r))
         IN  IF r.err THEN [err |-> TRUE, t |-> r.t, log |-> l]
             ELSE SetVars(Tail(vars), r.t, l)

(***************************************************************************)
(* targetAmendCmd                                                          *)
(***************************************************************************)

\* one turn of the parsing loop of targetAmendCmd: [err, kv]
ParseAmendArg(arg) ==
    LET kv == SplitN2(arg, "=")
        valid == InSeq(kv[1], amendVars)
    IN  IF ~valid THEN [err |-> "invalid", kv |-> <<>>]
        ELSE IF Len(kv) = 1 THEN [err |-> "novalue", kv |-> <<>>]
        ELSE IF TrimSpace(kv[2]) = <<>> THEN [err |-> "empty", kv |-> <<>>]
        ELSE [err |-> "none", kv |-> <<kv[1], TrimSuffix(TrimSpace(kv[2]), <<"/">>)>>]

RECURSIVE ParseAmendArgs(_, _)
ParseAmendArgs(args, vars) ==
    IF args = <<>> THEN [err |-> "none", vars |-> vars]
    ELSE LET p == ParseAmendArg(Head(args))
         IN  IF p.err # "none" THEN [err |-> p.err, vars |-> vars]
             ELSE ParseAmendArgs(Tail(args), Append(vars, p.kv))

AmendFlagKeys == {S_cflags, S_cxxflags, S_lflags, S_aflags}

\* one turn of the amending loop of targetAmendCmd: [err, t]
AmendVar(kv, t, amendDelete) ==
    IF kv[1] = S_syscfg THEN amendSysCfg(kv[2], t, amendDelete)
    ELSE IF kv[1] \in AmendFlagKeys THEN amendBuildFlags(kv, t, amendDelete)
    ELSE [err |-> FALSE, t |-> t]

RECURSIVE AmendVars(_, _, _, _)
AmendVars(vars, t, log, amendDelete) ==
    IF vars = <<>> THEN [err |-> FALSE, t |-> t, log |-> log]
    ELSE LET r == AmendVar(Head(vars), t, amendDelete)
             l == Append(log, StepOf(Head(vars), t, r))
         IN  IF r.err THEN [err |-> TRUE, t |-> r.t, log |-> l]
             ELSE AmendVars(Tail(vars), r.t, l, amendDelete)

(***************************************************************************)
(* the recursive scan of a repository (pkg/localpackage.go)                *)
(*                                                                         *)
(* The tree of a repository is a function from the directories below its   *)
(* root, each the sequence of its segments, to the files they hold.        *)
(***************************************************************************)

LocalPackageSpecialNames == {S_src, S_include, S_bin}

\* LocalPackageSpecialName that knows no special name
NoSpecialName(dirName) == FALSE

LocalPackageSpecialName(dirName) == dirName \in LocalPackageSpecialNames

\* the directory names of the model, in the order ReadDir lists them
DirNames == <<<<".", "g">>, <<"a">>, <<"b", "a">>, S_src>>

\* the segments of a path relative to the root of the repository
RelSegs(pkgName) == IF pkgName = <<>> THEN <<>> ELSE Split(pkgName, "/")

\* repo.FilteredSearchList: the names of the directories in pkgName, sorted
FilteredSearchList(tree, pkgName) ==
    LET here == RelSegs(pkgName)
    IN  SelectSeq(DirNames, LAMBDA n : Append(here, n) \in DOMAIN tree)

LoadWarning(pkgDir, err) ==
    [kind |-> "load", name |-> <<>>, path1 |-> pkgDir, path2 |-> <<>>, err |-> err]

DupWarning(name, path1, path2) ==
    [kind |-> "dup", name |-> name, path1 |-> path1, path2 |-> path2, err |-> "none"]

\* AddPackage with the package of a name already listed put in the place of
\* the listed one
AddPackageKeepLast(st, pkgDir, l) ==
    IF l.err # "none"
    THEN [st EXCEPT !.warnings = Append(@, LoadWarning(pkgDir, l.err))]
    ELSE IF l.pkg.name \in DOMAIN st.pkgList
         THEN [st EXCEPT !.warnings =
                   Append(@, DupWarning(st.pkgList[l.pkg.name].name,
                                        st.pkgList[l.pkg.name].basePath,
                                        l.pkg.basePath)),
                         !.pkgList = MapSet(@, l.pkg.name, l.pkg)]
    ELSE [st EXCEPT !.pkgList = MapSet(@, l.pkg.name, l.pkg)]

\* AddPackage with the scan of the directory ended, and what its
\* subdirectories gave dropped, where its own package does not load
AddPackageGiveUp(st, pkgDir, l) ==
    IF l.err # "none"
    THEN [pkgList |-> <<>>, warnings |-> <<LoadWarning(pkgDir, l.err)>>]
    ELSE IF l.pkg.name \in DOMAIN st.pkgList
         THEN [st EXCEPT !.warnings =
                   Append(@, DupWarning(st.pkgList[l.pkg.name].name,
                                        st.pkgList[l.pkg.name].basePath,
                                        l.pkg.basePath))]
    ELSE [st EXCEPT !.pkgList = MapSet(@, l.pkg.name, l.pkg)]

\* what ReadLocalPackageRecursive does with l, the result of LoadLocalPackage
\* on pkgDir: a warning of the error, a warning of the name that is listed
\* already, or the package listed under its name
AddPackage(st, pkgDir, l) ==
    IF l.err # "none"
    THEN [st EXCEPT !.warnings = Append(@, LoadWarning(pkgDir, l.err))]
    ELSE IF l.pkg.name \in DOMAIN st.pkgList
         THEN [st EXCEPT !.warnings =
                   Append(@, DupWarning(st.pkgList[l.pkg.name].name,
                                        st.pkgList[l.pkg.name].basePath,
                                        l.pkg.basePath))]
    ELSE [st EXCEPT !.pkgList = MapSet(@, l.pkg.name, l.pkg)]

\* what ReadLocalPackageRecursive does with the directory itself, once its
\* subdirectories are scanned
ScanSelf(tree, st, basePath, pkgName) ==
    IF ~tree[RelSegs(pkgName)].pkgYml.exists THEN st
    ELSE AddPackage(st, PathJoin(basePath, pkgName),
                    LoadLocalPackage(PathJoin(basePath, pkgName), tree[RelSegs(pkgName)]))

RECURSIVE ReadLocalPackageRecursive(_, _, _, _)
RECURSIVE ScanSubdirs(_, _, _, _, _)

\* the loop of ReadLocalPackageRecursive over the listing of pkgName
ScanSubdirs(tree, st, basePath, pkgName, dirList) ==
    IF dirList = <<>> THEN st
    ELSE LET name == Head(dirList)
         IN  IF LocalPackageSpecialName(name) \/ HasPrefix(name, <<".">>)
             THEN ScanSubdirs(tree, st, basePath, pkgName, Tail(dirList))
             ELSE ScanSubdirs(tree,
                              ReadLocalPackageRecursive(tree, st, basePath,
                                                        PathJoin(pkgName, name)),
                              basePath, pkgName, Tail(dirList))

ReadLocalPackageRecursive(tree, st, basePath, pkgName) ==
    ScanSelf(tree,
             ScanSubdirs(tree, st, basePath, pkgName, FilteredSearchList(tree, pkgName)),
             basePath, pkgName)

\* ReadLocalPackages: the mapping, the warnings and the error it returns
ReadLocalPackages(tree, basePath) ==
    LET st == ReadLocalPackageRecursive(tree, [pkgList |-> <<>>, warnings |-> <<>>],
                                        basePath, <<>>)
    IN  [pkgMap |-> st.pkgList, warnings |-> st.warnings, err |-> "none"]

(***************************************************************************)
(* state                                                                   *)
(***************************************************************************)

VARIABLES
    disk,    \* the files of the target's directory
    disk0,   \* those files when the last command began
    t0,      \* the target in memory when the last command began
    t,       \* the target in memory when the last command ended
    cmd,     \* the last command: [op, args, amendDelete]
    steps,   \* the turns of its setting or amending loop, one record each
    res,     \* "none", "ok", or "usage": NewtUsage ended the command
    saved,   \* the last command called Target.Save
    tree,    \* the directories of the scanned repository and their files
    scan,    \* what the last ReadLocalPackages returned
    targets, \* the target directories of the local repository and their entries
    op,      \* the last create, delete or show command and what it gave
    mem      \* the packages a copy command holds in memory, and its heap

cmdVars == <<disk, disk0, t0, t, cmd, steps, res, saved>>

scanVars == <<tree, scan>>

lifeVars == <<targets, op, mem>>

vars == <<disk, disk0, t0, t, cmd, steps, res, saved, tree, scan, targets, op, mem>>

\* the most arguments of one command, after the target's name
MaxArgs == 2

\* the most directories of a repository, below its root
MaxDirs == 2

RepoPath == <<"/", "r">>

TargetName == <<"t">>

TargetBase == RepoPath \o <<"/">> \o TargetName

NoFiles == [pkgYml |-> NoFile, syscfgYml |-> NoFile, targetYml |-> NoFile]

\* CreateTarget without the call of SetType
CreateTargetNoType(pkgName) ==
    [pkg |-> [NewLocalPackage(RepoPath \o <<"/">> \o pkgName) EXCEPT !.name = pkgName],
     TargetY |-> NewYCfg]

\* targetCreateCmd: the target it makes of a name, before it is saved
CreateTarget(pkgName) ==
    [pkg |-> [NewLocalPackage(RepoPath \o <<"/">> \o pkgName) EXCEPT
                  !.name = pkgName, !.packageType = PACKAGE_TYPE_TARGET],
     TargetY |-> NewYCfg]

\* a target directory as create leaves it
CreatedDisk == TargetSave(CreateTarget(TargetName))

\* a target directory with flags, target variables and a syscfg.yml that
\* holds more than syscfg.vals
EditedDisk ==
    [pkgYml |-> YmlFile(<<Scalar(K_name, TargetName),
                          Scalar(K_type, S_target),
                          Block(S_pkgDot \o S_cflags, <<<<"a">>, <<"b">>, <<"a">>>>),
                          Block(S_pkgDot \o S_lflags, <<<<"a">>>>)>>),
     targetYml |-> YmlFile(<<Native(S_targetDot \o S_app, <<"x">>),
                             Native(S_targetDot \o S_loader, <<"y">>)>>),
     syscfgYml |-> YmlFile(<<Native(K_syscfgVals, (<<"K">> :> <<"1">>)),
                             Native(K_syscfgDefs, (<<"J">> :> <<"2">>))>>)]

InitDisks == {CreatedDisk, EditedDisk}

NoCmd == [op |-> "none", args |-> <<>>, amendDelete |-> FALSE]

NoScan == [done |-> FALSE, pkgMap |-> <<>>, warnings |-> <<>>, err |-> "none"]

EmptyTree == (<<>> :> NoFiles)

\* no target directory, no create, delete or show command yet
NoTargets == <<>>

NoOp == [cmd |-> "none", args |-> <<>>, force |-> FALSE, answers |-> <<>>,
         res |-> "none", out |-> <<>>, before |-> NoTargets]

\* no package in memory
NoMem == [objs |-> <<>>, descs |-> <<>>, arrs |-> <<>>,
          last |-> [op |-> "none", obj |-> 0, before |-> <<>>]]

InitOf(disks) ==
    /\ disk \in disks
    /\ disk0 = disk
    /\ t0 = LoadTarget(TargetBase, disk)
    /\ t = t0
    /\ cmd = NoCmd
    /\ steps = <<>>
    /\ res = "none"
    /\ saved = FALSE
    /\ tree = EmptyTree
    /\ scan = NoScan
    /\ targets = NoTargets
    /\ op = NoOp
    /\ mem = NoMem

Init == InitOf(InitDisks)

\* the project holds the target as create left it, and an empty repository
InitScan == InitOf({CreatedDisk})

\* the argument lists of a command whose arguments are drawn from U
ArgLists(U) == UNION {[1..n -> U] : n \in 0..MaxArgs}

(***************************************************************************)
(* the commands                                                            *)
(***************************************************************************)

\* newt target set <target> args...
targetSetCmd(args) ==
    LET tl == LoadTarget(TargetBase, disk)
        p == ParseSetArgs(args, <<>>)
        a == SetVars(p.vars, tl, <<>>)
    IN  /\ res = "none"
        /\ cmd' = [op |-> "set", args |-> args, amendDelete |-> FALSE]
        /\ t0' = tl
        /\ disk0' = disk
        /\ IF Len(args) < 1 \/ p.err # "none"
           THEN /\ t' = tl
                /\ steps' = <<>>
                /\ res' = "usage"
                /\ saved' = FALSE
                /\ disk' = disk
           ELSE IF a.err
           THEN /\ t' = a.t
                /\ steps' = a.log
                /\ res' = "usage"
                /\ saved' = FALSE
                /\ disk' = disk
           ELSE /\ t' = a.t
                /\ steps' = a.log
                /\ res' = "ok"
                /\ saved' = TRUE
                /\ disk' = TargetSave(a.t)
        /\ UNCHANGED <<scanVars, lifeVars>>

\* newt target amend [-d] <target> args...
targetAmendCmd(args, amendDelete) ==
    LET tl == LoadTarget(TargetBase, disk)
        p == ParseAmendArgs(args, <<>>)
        a == AmendVars(p.vars, tl, <<>>, amendDelete)
    IN  /\ res = "none"
        /\ cmd' = [op |-> "amend", args |-> args, amendDelete |-> amendDelete]
        /\ t0' = tl
        /\ disk0' = disk
        /\ IF Len(args) < 1 \/ p.err # "none"
           THEN /\ t' = tl
                /\ steps' = <<>>
                /\ res' = "usage"
                /\ saved' = FALSE
                /\ disk' = disk
           ELSE IF a.err
           THEN /\ t' = a.t
                /\ steps' = a.log
                /\ res' = "usage"
                /\ saved' = FALSE
                /\ disk' = disk
           ELSE /\ t' = a.t
                /\ steps' = a.log
                /\ res' = "ok"
                /\ saved' = TRUE
                /\ disk' = TargetSave(a.t)
        /\ UNCHANGED <<scanVars, lifeVars>>

\* the command's process ends: what it held in memory is gone, the files stay
Exit ==
    /\ res # "none"
    /\ disk0' = disk
    /\ t0' = LoadTarget(TargetBase, disk)
    /\ t' = t0'
    /\ cmd' = NoCmd
    /\ steps' = <<>>
    /\ res' = "none"
    /\ saved' = FALSE
    /\ UNCHANGED <<disk, tree, scan, lifeVars>>

(***************************************************************************)
(* the repository and its scan                                             *)
(***************************************************************************)

PkgYml(entries) == [pkgYml |-> YmlFile(entries), syscfgYml |-> NoFile, targetYml |-> NoFile]

\* the pkg.yml files of the model: packages named a, ba and ba/a, and files
\* that Load rejects (no name, unknown type, subpriority of a bsp, parse error)
Manifests ==
    {PkgYml(<<Scalar(K_name, <<"a">>)>>),
     PkgYml(<<Scalar(K_name, <<"b", "a">>), Scalar(K_type, S_lib)>>),
     PkgYml(<<Scalar(K_name, <<"b", "a", "/", "a">>)>>),
     PkgYml(<<Scalar(K_type, S_lib)>>),
     PkgYml(<<Scalar(K_name, <<"a">>), Scalar(K_type, <<"z", "z">>)>>),
     PkgYml(<<Scalar(K_name, <<"a">>), Scalar(K_type, S_bsp),
              Native(K_subpriority, 1)>>),
     [pkgYml |-> CorruptFile, syscfgYml |-> NoFile, targetYml |-> NoFile]}

\* a directory is made in the repository
Mkdir ==
    \E parent \in DOMAIN tree, i \in DOMAIN DirNames :
        LET d == Append(parent, DirNames[i])
        IN  /\ d \notin DOMAIN tree
            /\ Cardinality(DOMAIN tree) - 1 < MaxDirs
            /\ tree' = [x \in DOMAIN tree \cup {d} |-> IF x = d THEN NoFiles ELSE tree[x]]
            /\ scan' = NoScan
            /\ UNCHANGED <<cmdVars, lifeVars>>

\* a pkg.yml is written in a directory below the root
WritePkgYml ==
    \E d \in DOMAIN tree \ {<<>>}, m \in Manifests :
        /\ ~tree[d].pkgYml.exists
        /\ tree' = [tree EXCEPT ![d] = m]
        /\ scan' = NoScan
        /\ UNCHANGED <<cmdVars, lifeVars>>

\* the project is loaded: the repository is scanned
Scan ==
    LET r == ReadLocalPackages(tree, RepoPath)
    IN  /\ ~scan.done
        /\ scan' = [done |-> TRUE, pkgMap |-> r.pkgMap, warnings |-> r.warnings,
                    err |-> r.err]
        /\ UNCHANGED <<tree, cmdVars, lifeVars>>

Arg(name, value) == name \o <<"=">> \o value

\* the arguments of the flag variables
FlagArgs ==
    {Arg(S_cflags, <<"a", " ", "c", " ", "c">>),
     Arg(S_cflags, <<>>),
     Arg(S_cflags, <<" ">>),
     Arg(S_lflags, <<"/">>),
     Arg(S_lflags, <<"a", "/">>),
     Arg(S_aflags, <<"b">>),
     Arg(S_cxxflags, <<" ", "a", " ">>)}

\* the arguments of the syscfg variable
SyscfgArgs ==
    {Arg(S_syscfg, <<"K", "=", "1">>),
     Arg(S_syscfg, <<"K", "=", "2", ":", "J", "=", "1">>),
     Arg(S_syscfg, <<"J">>),
     Arg(S_syscfg, <<>>),
     Arg(S_syscfg, <<"/">>),
     Arg(S_syscfg, <<"7">>)}

\* arguments of every kind, the rejected ones among them
MixedArgs ==
    {Arg(S_bsp, <<"y">>),
     Arg(S_targetDot \o S_bsp, <<"y">>),
     Arg(S_cflags, <<"a">>),
     Arg(S_targetDot \o S_cflags, <<"a">>),
     Arg(<<"f", "o", "o">>, <<"x">>),
     S_cflags,
     Arg(S_cflags, <<" ">>),
     Arg(S_lflags, <<"/">>)}

SetFlags == \E args \in ArgLists(FlagArgs) : targetSetCmd(args)

AmendFlags ==
    \E args \in ArgLists(FlagArgs), amendDelete \in BOOLEAN :
        targetAmendCmd(args, amendDelete)

SetSyscfg == \E args \in ArgLists(SyscfgArgs) : targetSetCmd(args)

AmendSyscfg ==
    \E args \in ArgLists(SyscfgArgs), amendDelete \in BOOLEAN :
        targetAmendCmd(args, amendDelete)

SetMixed == \E args \in ArgLists(MixedArgs) : targetSetCmd(args)

AmendMixed ==
    \E args \in ArgLists(MixedArgs), amendDelete \in BOOLEAN :
        targetAmendCmd(args, amendDelete)

NextFlags == SetFlags \/ AmendFlags \/ Exit

NextSyscfg == SetSyscfg \/ AmendSyscfg \/ Exit

Next == SetMixed \/ AmendMixed \/ Exit

NextScan == Mkdir \/ WritePkgYml \/ Scan

\* set and amend with arguments of every kind
Spec == Init /\ [][Next]_vars

\* set and amend of the flag variables
SpecFlags == Init /\ [][NextFlags]_vars

\* set and amend of the syscfg variable
SpecSyscfg == Init /\ [][NextSyscfg]_vars

\* the scan of every repository of at most MaxDirs directories
SpecScan == InitScan /\ [][NextScan]_vars

(***************************************************************************)
(* properties                                                              *)
(***************************************************************************)

\* the elements of s that are not elements of r, in their order in s
Without(s, r) == SelectSeq(s, LAMBDA x : ~InSeq(x, r))

FlagSteps == {i \in DOMAIN steps : cmd.op = "amend" /\ steps[i].var \in AmendFlagKeys}

FlagsBefore(i) == GetValStringSlice(steps[i].before.pkg.PkgY, S_pkgDot \o steps[i].var)

FlagsAfter(i) == GetValStringSlice(steps[i].after.pkg.PkgY, S_pkgDot \o steps[i].var)

\* C1: an amend of a flag variable, whose list is L and whose value has the
\* tokens T, leaves pkg.<name> equal to L followed by the tokens of T that are
\* not in L, in their order, and with -d equal to L without every occurrence
\* of every token of T, the other tokens in their order.
C1_AmendFlags ==
    \A i \in FlagSteps :
        LET L == FlagsBefore(i)
            T == Fields(steps[i].value)
        IN  /\ S_pkgDot \o steps[i].var \in DOMAIN steps[i].after.pkg.PkgY
            /\ ~cmd.amendDelete => FlagsAfter(i) = L \o Without(T, L)
            /\ cmd.amendDelete => FlagsAfter(i) = Without(L, T)

\* an amend without -d of a list that holds one of the given tokens and lacks
\* another, which is given twice
C1_Witness ==
    \E i \in FlagSteps :
        LET L == FlagsBefore(i)
            T == Fields(steps[i].value)
        IN  /\ ~cmd.amendDelete
            /\ \E j \in DOMAIN T : InSeq(T[j], L)
            /\ \E j, k \in DOMAIN T : j # k /\ T[j] = T[k] /\ ~InSeq(T[j], L)
            /\ Len(FlagsAfter(i)) = Len(L) + 2

SyscfgSteps == {i \in DOMAIN steps : cmd.op = "amend" /\ steps[i].var = S_syscfg}

ValsOf(tt) ==
    IF K_syscfgVals \in DOMAIN tt.pkg.SyscfgY THEN tt.pkg.SyscfgY[K_syscfgVals] ELSE <<>>

\* C2: an amend of syscfg, whose syscfg.vals is M (the empty map when it is
\* missing) and whose value parses to N, leaves syscfg.vals equal to M united
\* with N, N's value on every key of both, and with -d equal to M restricted
\* to the keys that are not keys of N.
C2_AmendSyscfg ==
    \A i \in SyscfgSteps :
        ~steps[i].err =>
            LET M == ValsOf(steps[i].before)
                N == KeyValueFromStr(steps[i].value).m
                R == steps[i].after.pkg.SyscfgY
            IN  /\ K_syscfgVals \in DOMAIN R
                /\ ~cmd.amendDelete =>
                       R[K_syscfgVals] = [k \in DOMAIN M \cup DOMAIN N |->
                                              IF k \in DOMAIN N THEN N[k] ELSE M[k]]
                /\ cmd.amendDelete =>
                       R[K_syscfgVals] = [k \in DOMAIN M \ DOMAIN N |-> M[k]]

\* an amend without -d that gives a key of syscfg.vals another value and adds
\* a key, in a command that was saved
C2_Witness ==
    \E i \in SyscfgSteps :
        LET M == ValsOf(steps[i].before)
            N == KeyValueFromStr(steps[i].value).m
        IN  /\ ~cmd.amendDelete
            /\ res = "ok"
            /\ \E k \in DOMAIN M \cap DOMAIN N : M[k] # N[k]
            /\ DOMAIN N \ DOMAIN M # {}

SetSyscfgSteps ==
    {i \in DOMAIN steps : cmd.op = "set" /\ steps[i].var = S_targetDot \o S_syscfg}

\* C3: a set of syscfg whose value parses to N leaves the syscfg document with
\* the one key syscfg.vals, equal to N, whatever the document held before and
\* whatever commands came before; a command that ends with it saves that
\* document.
C3_SetSyscfg ==
    \A i \in SetSyscfgSteps :
        ~steps[i].err =>
            LET N == KeyValueFromStr(steps[i].value).m
                R == steps[i].after.pkg.SyscfgY
            IN  /\ DOMAIN R = {K_syscfgVals}
                /\ R[K_syscfgVals] = N
                /\ (res = "ok" /\ i = Len(steps)) =>
                       /\ t.pkg.SyscfgY = R
                       /\ disk.syscfgYml = YAML(R)

\* a saved set of syscfg on a document that held a sibling of syscfg.vals and
\* a key of syscfg.vals that the value does not give
C3_Witness ==
    \E i \in SetSyscfgSteps :
        LET N == KeyValueFromStr(steps[i].value).m
            B == steps[i].before.pkg.SyscfgY
        IN  /\ ~steps[i].err
            /\ res = "ok"
            /\ i = Len(steps)
            /\ K_syscfgDefs \in DOMAIN B
            /\ K_syscfgVals \in DOMAIN B
            /\ DOMAIN B[K_syscfgVals] \ DOMAIN N # {}

SetFlagSteps == {i \in DOMAIN steps : cmd.op = "set" /\ steps[i].var \in SetFlagKeys}

SetFlagKey(i) == S_pkgDot \o TrimPrefix(steps[i].var, S_targetDot)

\* C4 as the specification states it: a set of a flag variable with a value
\* that yields no token deletes pkg.<name>, and with any other value replaces
\* it by the tokens of the value.
C4_SetFlagsNoToken ==
    \A i \in SetFlagSteps :
        LET T == Fields(steps[i].value)
            R == steps[i].after.pkg.PkgY
        IN  IF T = <<>> THEN SetFlagKey(i) \notin DOMAIN R
            ELSE SetFlagKey(i) \in DOMAIN R /\ R[SetFlagKey(i)] = T

\* C4: a set of a flag variable with the empty string, once one trailing "/"
\* is stripped, deletes pkg.<name>; with any other value it replaces
\* pkg.<name> by the tokens of the value, which is the empty list for a value
\* of white space; the pkg.yml that is saved has a block for pkg.<name> only
\* where there is a token.
C4_SetFlags ==
    \A i \in SetFlagSteps :
        LET v == steps[i].value
            R == steps[i].after.pkg.PkgY
        IN  /\ IF v = <<>> THEN SetFlagKey(i) \notin DOMAIN R
               ELSE SetFlagKey(i) \in DOMAIN R /\ R[SetFlagKey(i)] = Fields(v)
            /\ \A k \in DOMAIN R : k # SetFlagKey(i) =>
                   /\ k \in DOMAIN steps[i].before.pkg.PkgY
                   /\ R[k] = steps[i].before.pkg.PkgY[k]
            /\ sequenceString(steps[i].after.pkg, SetFlagKey(i)) = <<>> <=> Fields(v) = <<>>

\* a set of a flag variable that held a list, with a value of white space
C4_Witness ==
    \E i \in SetFlagSteps :
        /\ steps[i].value # <<>>
        /\ Fields(steps[i].value) = <<>>
        /\ GetValStringSlice(steps[i].before.pkg.PkgY, SetFlagKey(i)) # <<>>
        /\ SetFlagKey(i) \in DOMAIN steps[i].after.pkg.PkgY
        /\ res = "ok"

\* the name an argument gives, without the "target." before it
ArgName(arg) == TrimPrefix(SplitN2(arg, "=")[1], S_targetDot)

\* the argument without the "target." before its name
StripTarget(arg) == IF HasPrefix(arg, S_targetDot) THEN TrimPrefix(arg, S_targetDot) ELSE arg

StripTargets(args) == [i \in DOMAIN args |-> StripTarget(args[i])]

\* C5: a set command with an argument whose name, without "target.", is not a
\* variable of set ends in an error with the target as it was loaded and no
\* file written, whatever the arguments before it; and a command has the
\* effect of the command whose arguments are written without "target.".
C5_SetValidates ==
    cmd.op = "set" =>
        /\ (\E i \in DOMAIN cmd.args : ~InSeq(ArgName(cmd.args[i]), setVars)) =>
               /\ res = "usage"
               /\ t = t0
               /\ steps = <<>>
               /\ ~saved
               /\ disk = disk0
        /\ LET p == ParseSetArgs(StripTargets(cmd.args), <<>>)
               a == SetVars(p.vars, t0, <<>>)
           IN  IF Len(cmd.args) < 1 \/ p.err # "none"
               THEN res = "usage" /\ t = t0 /\ disk = disk0
               ELSE /\ t = a.t
                    /\ res = (IF a.err THEN "usage" ELSE "ok")
                    /\ disk = (IF a.err THEN disk0 ELSE TargetSave(a.t))

\* a set command of a valid argument written with "target." and, after it, an
\* argument of an unknown variable
C5_Witness ==
    /\ cmd.op = "set"
    /\ Len(cmd.args) = 2
    /\ HasPrefix(cmd.args[1], S_targetDot)
    /\ ParseSetArg(cmd.args[1]).err = "none"
    /\ ~InSeq(ArgName(cmd.args[2]), setVars)
    /\ res = "usage"

\* the name and the value an argument of amend gives
AmendName(arg) == SplitN2(arg, "=")[1]

AmendValue(arg) == IF Len(SplitN2(arg, "=")) = 1 THEN <<>> ELSE SplitN2(arg, "=")[2]

\* C6: an amend command with an argument whose variable is not amendable, or
\* whose value is empty once trimmed, ends in an error with the target as it
\* was loaded and no file written; and no turn of the amending loop is handed
\* the empty string.
C6_AmendValidates ==
    cmd.op = "amend" =>
        /\ (\E i \in DOMAIN cmd.args :
                \/ ~InSeq(AmendName(cmd.args[i]), amendVars)
                \/ TrimSpace(AmendValue(cmd.args[i])) = <<>>) =>
               /\ res = "usage"
               /\ t = t0
               /\ steps = <<>>
               /\ ~saved
               /\ disk = disk0
        /\ \A i \in DOMAIN steps : steps[i].value # <<>>

\* the path of a directory of the tree
DirPath(d) == PathJoin(RepoPath, Join(d, "/"))

\* a directory name the scan passes over
Reserved(n) == n \in {S_src, S_include, S_bin} \/ (n # <<>> /\ n[1] = ".")

\* the directories the scan visits: no segment of theirs is passed over
Visited == {d \in DOMAIN tree : \A i \in DOMAIN d : ~Reserved(d[i])}

HasPkgYml(d) == tree[d].pkgYml.exists

Loads(d) == HasPkgYml(d) /\ LoadLocalPackage(DirPath(d), tree[d]).err = "none"

NameOf(d) == LoadLocalPackage(DirPath(d), tree[d]).pkg.name

\* a is the end of b
EndOf(a, b) == Len(a) <= Len(b) /\ SubSeq(b, Len(b) - Len(a) + 1, Len(b)) = a

\* the visited directories at and below d, every directory after the ones
\* below it, those in the order of their names
RECURSIVE PostOrderBelow(_, _)
PostOrder(d) == PostOrderBelow(d, 1) \o <<d>>

PostOrderBelow(d, i) ==
    IF i > Len(DirNames) THEN <<>>
    ELSE (IF Append(d, DirNames[i]) \in Visited THEN PostOrder(Append(d, DirNames[i]))
          ELSE <<>>)
         \o PostOrderBelow(d, i + 1)

\* the directories that load, in post-order
LoadedOrder == SelectSeq(PostOrder(<<>>), Loads)

\* the place in LoadedOrder of the first directory of the name of its i-th
FirstOf(i) ==
    CHOOSE j \in 1..i :
        /\ NameOf(LoadedOrder[j]) = NameOf(LoadedOrder[i])
        /\ \A k \in 1..(j - 1) : NameOf(LoadedOrder[k]) # NameOf(LoadedOrder[i])

\* the places in LoadedOrder of the directories whose name an earlier one has
LaterPlaces == SelectSeq([i \in 1..Len(LoadedOrder) |-> i], LAMBDA i : FirstOf(i) # i)

\* the warnings of those directories
LaterWarnings ==
    [k \in 1..Len(LaterPlaces) |->
        DupWarning(NameOf(LoadedOrder[LaterPlaces[k]]),
                   DirPath(LoadedOrder[FirstOf(LaterPlaces[k])]),
                   DirPath(LoadedOrder[LaterPlaces[k]]))]

\* C7 as the specification states it: the segments of the name of every
\* package of the scan are the last segments of its base path, and a pkg.yml
\* whose name is not so is answered by a warning of the load.
C7_NamePathSegments ==
    scan.done =>
        /\ \A n \in DOMAIN scan.pkgMap :
               EndOf(Split(scan.pkgMap[n].name, "/"),
                     Split(Clean(scan.pkgMap[n].basePath), "/"))
        /\ \A d \in Visited :
               (/\ HasPkgYml(d)
                /\ ReadFile(tree[d].pkgYml).err = "none"
                /\ ~EndOf(Split(GetValString(ReadFile(tree[d].pkgYml).doc, K_name), "/"),
                          Split(DirPath(d), "/")))
               => \E i \in DOMAIN scan.warnings :
                      /\ scan.warnings[i].kind = "load"
                      /\ scan.warnings[i].path1 = DirPath(d)

\* C8: the scan lists under a name the first directory in post-order that
\* loads with it, and warns once, with the path listed and the path of the
\* directory, of every later directory that loads with it; every package is
\* listed under its own name.
C8_FirstKept ==
    scan.done =>
        /\ DOMAIN scan.pkgMap = {NameOf(LoadedOrder[i]) : i \in DOMAIN LoadedOrder}
        /\ \A i \in DOMAIN LoadedOrder :
               LET n == NameOf(LoadedOrder[i])
               IN  /\ scan.pkgMap[n].name = n
                   /\ scan.pkgMap[n].basePath = DirPath(LoadedOrder[FirstOf(i)])
        /\ SelectSeq(scan.warnings, LAMBDA w : w.kind = "dup") = LaterWarnings

\* a scan that meets a name a second time
C8_Witness ==
    /\ scan.done
    /\ LaterPlaces # <<>>
    /\ \E k \in DOMAIN LaterPlaces :
           LET d == LoadedOrder[LaterPlaces[k]]
           IN  /\ scan.pkgMap[NameOf(d)].basePath # DirPath(d)
               /\ \E i \in DOMAIN scan.warnings : scan.warnings[i].path2 = DirPath(d)

\* C9: no package the scan lists, and no warning it gives, is of a directory
\* with a segment below the root named src, include or bin or beginning with
\* ".", whatever pkg.yml such a directory holds.
C9_ReservedDirs ==
    scan.done =>
        /\ \A n \in DOMAIN scan.pkgMap :
               \E d \in Visited : scan.pkgMap[n].basePath = DirPath(d)
        /\ \A i \in DOMAIN scan.warnings :
               /\ \E d \in Visited : scan.warnings[i].path1 = DirPath(d)
               /\ scan.warnings[i].kind = "dup" =>
                      \E d \in Visited : scan.warnings[i].path2 = DirPath(d)
        /\ \A d \in DOMAIN tree \ Visited :
               /\ \A n \in DOMAIN scan.pkgMap : scan.pkgMap[n].basePath # DirPath(d)
               /\ \A i \in DOMAIN scan.warnings :
                      DirPath(d) \notin {scan.warnings[i].path1, scan.warnings[i].path2}

\* a scan of a tree with a pkg.yml that loads in a directory the scan passes
\* over
C9_Witness ==
    /\ scan.done
    /\ \E d \in DOMAIN tree \ Visited : Loads(d)

\* the tree without the pkg.yml files that do not load
OnlyLoading == [d \in DOMAIN tree |-> IF HasPkgYml(d) /\ ~Loads(d) THEN NoFiles ELSE tree[d]]

NoRepeat(s) == \A i, j \in DOMAIN s : s[i] = s[j] => i = j

\* C18 as the specification states it: an amend of a flag variable whose list
\* holds no token twice leaves a list that holds no token twice, whatever the
\* value repeats, and the same amend without -d once more leaves the list as
\* it is.
C18_AmendSetUnion ==
    \A i \in FlagSteps :
        /\ NoRepeat(FlagsBefore(i)) => NoRepeat(FlagsAfter(i))
        /\ ~cmd.amendDelete =>
               amendBuildFlags(<<steps[i].var, steps[i].value>>, steps[i].after, FALSE).t
                   = steps[i].after

(***************************************************************************)
(* set and amend of variables of every route, beside another package       *)
(***************************************************************************)

\* a repository that holds, beside the target, the package a
OtherTree == (<<>> :> NoFiles) @@ (<<"a">> :> PkgYml(<<Scalar(K_name, <<"a">>)>>))

InitRoute ==
    /\ disk \in InitDisks
    /\ disk0 = disk
    /\ t0 = LoadTarget(TargetBase, disk)
    /\ t = t0
    /\ cmd = NoCmd
    /\ steps = <<>>
    /\ res = "none"
    /\ saved = FALSE
    /\ tree = OtherTree
    /\ scan = NoScan
    /\ targets = NoTargets
    /\ op = NoOp
    /\ mem = NoMem

\* arguments routed to target.yml, to pkg.yml and to syscfg.yml
RouteArgs ==
    {Arg(S_bsp, <<"y">>),
     Arg(S_app, <<>>),
     Arg(S_build_profile, <<"d">>),
     Arg(S_cflags, <<"a", " ", "c">>),
     Arg(S_syscfg, <<"K", "=", "2", ":", "L", "=", "1">>),
     Arg(S_syscfg, <<"7">>)}

SetRoute == \E args \in ArgLists(RouteArgs) : targetSetCmd(args)

AmendRoute ==
    \E args \in ArgLists(RouteArgs), amendDelete \in BOOLEAN :
        targetAmendCmd(args, amendDelete)

NextRoute == SetRoute \/ AmendRoute \/ Exit

SpecRoute == InitRoute /\ [][NextRoute]_vars

\* the documents d and e differ at the key k at most
OnlyKey(d, e, k) ==
    \A x \in (DOMAIN d \cup DOMAIN e) \ {k} :
        x \in DOMAIN d /\ x \in DOMAIN e /\ d[x] = e[x]

\* C19: a turn of the setting or amending loop changes one key of one
\* document: a flag variable pkg.<name> of the pkg.yml document, a set of any
\* other variable but syscfg target.<name> of the target.yml document, an
\* amend of syscfg syscfg.vals of the syscfg.yml document; the set of syscfg
\* changes the syscfg.yml document alone; and the files of the other package
\* stay as they are.
C19_Frame ==
    /\ tree = OtherTree
    /\ \A i \in DOMAIN steps :
           LET b == steps[i].before
               a == steps[i].after
               v == steps[i].var
           IN  IF cmd.op = "set" /\ v = S_targetDot \o S_syscfg
               THEN a.pkg.PkgY = b.pkg.PkgY /\ a.TargetY = b.TargetY
               ELSE IF cmd.op = "set" /\ v \in SetFlagKeys
               THEN /\ OnlyKey(b.pkg.PkgY, a.pkg.PkgY, S_pkgDot \o TrimPrefix(v, S_targetDot))
                    /\ a.TargetY = b.TargetY
                    /\ a.pkg.SyscfgY = b.pkg.SyscfgY
               ELSE IF cmd.op = "set"
               THEN /\ OnlyKey(b.TargetY, a.TargetY, v)
                    /\ a.pkg.PkgY = b.pkg.PkgY
                    /\ a.pkg.SyscfgY = b.pkg.SyscfgY
               ELSE IF v = S_syscfg
               THEN /\ OnlyKey(b.pkg.SyscfgY, a.pkg.SyscfgY, K_syscfgVals)
                    /\ a.TargetY = b.TargetY
                    /\ a.pkg.PkgY = b.pkg.PkgY
               ELSE /\ OnlyKey(b.pkg.PkgY, a.pkg.PkgY, S_pkgDot \o v)
                    /\ a.TargetY = b.TargetY
                    /\ a.pkg.SyscfgY = b.pkg.SyscfgY

\* a saved command of two turns: an amend of syscfg that changes syscfg.vals
\* beside a sibling key, after an amend of a flag variable beside other flags
C19_Witness ==
    /\ cmd.op = "amend"
    /\ res = "ok"
    /\ Len(steps) = 2
    /\ steps[1].var = S_cflags
    /\ steps[1].after.pkg.PkgY # steps[1].before.pkg.PkgY
    /\ S_pkgDot \o S_lflags \in DOMAIN steps[1].before.pkg.PkgY
    /\ steps[2].var = S_syscfg
    /\ K_syscfgDefs \in DOMAIN steps[2].before.pkg.SyscfgY
    /\ steps[2].after.pkg.SyscfgY # steps[2].before.pkg.SyscfgY

(***************************************************************************)
(* Save and Load of a pkg.yml that was edited by hand                      *)
(***************************************************************************)

\* target directories whose pkg.yml was edited by hand: keys that Save does
\* not write, scalars that need quotes, empty scalars, dependencies
HandDisks ==
    {[pkgYml |-> YmlFile(<<Scalar(K_name, TargetName),
                           Scalar(K_type, S_target),
                           Scalar(K_description, <<"\"", "a", ":", "b", "\"">>),
                           Scalar(K_author, <<>>),
                           Scalar(K_homepage, <<"h">>),
                           Block(K_keywords, <<<<"k">>>>),
                           Native(K_subpriority, 0),
                           Block(K_deps, <<<<"\"", "@", "c", "/", "d", "-", "e", "\"">>>>),
                           Block(S_pkgDot \o S_cflags, <<<<"\"", "-", "a", "\"">>>>)>>),
      targetYml |-> YmlFile(<<Native(S_targetDot \o S_app, <<"x">>)>>),
      syscfgYml |-> NoFile],
     [pkgYml |-> YmlFile(<<Block(K_keywords, <<<<"k">>>>),
                           Scalar(K_author, <<"m", "e">>),
                           Scalar(K_name, TargetName),
                           Scalar(K_type, S_target)>>),
      targetYml |-> YmlFile(<<>>),
      syscfgYml |-> NoFile],
     CreatedDisk}

SpecSave == InitOf(HandDisks) /\ [][NextFlags]_vars

\* the keys Save writes, in its order
SaveKeys ==
    <<K_name, K_type, K_description, K_author, K_homepage, K_deps,
      S_pkgDot \o S_aflags, S_pkgDot \o S_cflags, S_pkgDot \o S_cxxflags,
      S_pkgDot \o S_lflags>>

\* the keys of the lists of a pkg.yml document that hold a token
ListKeys(doc) ==
    LET Held(k) == GetValStringSlice(doc, k) # <<>>
    IN  SelectSeq(SubSeq(SaveKeys, 6, 10), Held)

\* C11: the pkg.yml a command saved holds pkg.name, pkg.type,
\* pkg.description, pkg.author and pkg.homepage as scalars, then the blocks of
\* pkg.deps, pkg.aflags, pkg.cflags, pkg.cxxflags and pkg.lflags whose list
\* holds a token, in this order, and nothing else; read again, it has neither
\* pkg.keywords nor pkg.subpriority.
C11_SaveWhitelist ==
    saved =>
        LET es == disk.pkgYml.entries
            doc == ReadFile(disk.pkgYml).doc
        IN  /\ disk.pkgYml.exists /\ disk.pkgYml.ok
            /\ [i \in DOMAIN es |-> es[i].key]
                   = SubSeq(SaveKeys, 1, 5) \o ListKeys(t.pkg.PkgY)
            /\ \A i \in DOMAIN es : es[i].kind = IF i <= 5 THEN "scalar" ELSE "seq"
            /\ K_keywords \notin DOMAIN doc
            /\ K_subpriority \notin DOMAIN doc

\* a saved pkg.yml that held pkg.keywords and pkg.subpriority before the
\* command, with a block that is written and a block that is left out
C11_Witness ==
    /\ saved
    /\ {K_keywords, K_subpriority} \subseteq DOMAIN ReadFile(disk0.pkgYml).doc
    /\ GetValStringSlice(t.pkg.PkgY, S_pkgDot \o S_cflags) = <<>>
    /\ GetValStringSlice(t0.pkg.PkgY, S_pkgDot \o S_cflags) # <<>>
    /\ GetValStringSlice(t.pkg.PkgY, K_deps) # <<>>

SubprioManifests ==
    {PkgYml(<<Scalar(K_name, <<"a">>), Scalar(K_type, ty), Native(K_subpriority, n)>>) :
         ty \in {S_lib, S_bsp, S_unittest},
         n \in {-1, 1, PACKAGE_SUBPRIO_NUM - 1, PACKAGE_SUBPRIO_NUM}}

\* a pkg.yml with a pkg.subpriority is written in a directory below the root
WriteSubprioYml ==
    \E d \in DOMAIN tree \ {<<>>}, m \in SubprioManifests :
        /\ ~tree[d].pkgYml.exists
        /\ tree' = [tree EXCEPT ![d] = m]
        /\ scan' = NoScan
        /\ UNCHANGED <<cmdVars, lifeVars>>

NextSubprio == Mkdir \/ WriteSubprioYml \/ Scan

SpecSubprio == InitScan /\ [][NextSubprio]_vars

\* the pkg.subpriority written in the pkg.yml of the directory d
WrittenSubPriority(d) == GetValInt(ReadFile(tree[d].pkgYml).doc, K_subpriority)

\* C16 as the specification states it: every package of the mapping has a
\* sub_priority from 0 to PACKAGE_SUBPRIO_NUM - 1, above 0 only with a type
\* below bsp, and a pkg.yml whose pkg.subpriority is below 0 does not load.
C16_SubPriorityRange ==
    scan.done =>
        /\ \A n \in DOMAIN scan.pkgMap :
               /\ 0 <= scan.pkgMap[n].subPriority
               /\ scan.pkgMap[n].subPriority < PACKAGE_SUBPRIO_NUM
               /\ scan.pkgMap[n].subPriority > 0
                      => scan.pkgMap[n].packageType < PACKAGE_TYPE_BSP
        /\ \A d \in Visited :
               HasPkgYml(d) /\ WrittenSubPriority(d) < 0 => ~Loads(d)

\* what Load does hold of pkg.subpriority: no package of the mapping has one
\* past the range or one above 0 with a type of bsp or above, and a pkg.yml
\* that has one does not load
C16_UpperRange ==
    scan.done =>
        /\ \A n \in DOMAIN scan.pkgMap :
               /\ scan.pkgMap[n].subPriority < PACKAGE_SUBPRIO_NUM
               /\ scan.pkgMap[n].subPriority > 0
                      => scan.pkgMap[n].packageType < PACKAGE_TYPE_BSP
        /\ \A d \in Visited :
               /\ HasPkgYml(d)
               /\ \/ WrittenSubPriority(d) >= PACKAGE_SUBPRIO_NUM
                  \/ /\ WrittenSubPriority(d) > 0
                     /\ LoadLocalPackage(DirPath(d), tree[d]).pkg.packageType
                            >= PACKAGE_TYPE_BSP
               => ~Loads(d)

(***************************************************************************)
(* create, delete and show of the targets of the local repository          *)
(***************************************************************************)

\* the characters of the model in the order of their codes
Alphabet ==
    <<" ", "\"", "-", ".", "/", "0", "1", "2", "7", ":", "=", "@", "J", "K", "L", "_",
      "a", "b", "c", "d", "e", "f", "g", "h", "i", "j", "k", "l", "m", "n", "o",
      "p", "q", "r", "s", "t", "u", "v", "w", "x", "y", "z">>

Ord(c) == CHOOSE i \in DOMAIN Alphabet : Alphabet[i] = c

\* a < b, as Go compares strings
RECURSIVE LessStr(_, _)
LessStr(a, b) ==
    IF a = <<>> THEN b # <<>>
    ELSE IF b = <<>> THEN FALSE
    ELSE IF a[1] = b[1] THEN LessStr(Tail(a), Tail(b))
    ELSE Ord(a[1]) < Ord(b[1])

\* sort.Strings
RECURSIVE SortStrings(_)
SortStrings(s) ==
    IF s = <<>> THEN <<>>
    ELSE LET i == CHOOSE x \in DOMAIN s : \A j \in DOMAIN s : ~LessStr(s[j], s[x])
         IN  <<s[i]>> \o SortStrings(SubSeq(s, 1, i - 1) \o SubSeq(s, i + 1, Len(s)))

\* syscfg.KeyValueToStr: k=v of every key in sorted order, with : between
KeyValueToStr(sv) ==
    LET ks == SortStrings(SetToSeq(DOMAIN sv.m))
    IN  Join([i \in DOMAIN ks |-> ks[i] \o <<"=">> \o sv.m[ks[i]]], ":")

\* the sorted tokens of a list of the pkg.yml document, a space after each
pkgVarSliceString(pack, key) ==
    LET RECURSIVE WriteEach(_)
        WriteEach(vals) ==
            IF vals = <<>> THEN <<>>
            ELSE Head(vals) \o <<" ">> \o WriteEach(Tail(vals))
    IN  WriteEach(SortStrings(GetValStringSlice(pack.PkgY, key)))

\* a target directory: its three files, and whether it holds another entry
TargetDir(files, others) ==
    [pkgYml |-> files.pkgYml, targetYml |-> files.targetYml,
     syscfgYml |-> files.syscfgYml, others |-> others]

\* the directory of a package below the repository
DirOf(pack) == TrimPrefix(pack.basePath, RepoPath \o <<"/">>)

\* the targets with the package l of a directory, where it loaded and is a
\* target, and the target.yml of the directory
AddTarget(all, dir, l) ==
    IF l.err = "none" /\ l.pkg.packageType = PACKAGE_TYPE_TARGET
    THEN MapSet(all, l.pkg.name, [pkg |-> l.pkg, TargetY |-> ReadFile(dir.targetYml).doc])
    ELSE all

\* the targets of the directories ds among dirs, by name
RECURSIVE LoadTargets(_, _, _)
LoadTargets(dirs, ds, all) ==
    IF ds = <<>> THEN all
    ELSE LoadTargets(dirs, Tail(ds),
                     AddTarget(all, dirs[Head(ds)],
                               LoadLocalPackage(RepoPath \o <<"/">> \o Head(ds),
                                                dirs[Head(ds)])))

\* target.GetTargets: the targets of the project, by name
GetTargets(dirs) == LoadTargets(dirs, SetToSeq(DOMAIN dirs), <<>>)

\* ResolveNewTargetName among the targets all: the error of a name that is
\* empty or is a target's
ResolveNewTargetName(all, name) ==
    [err |-> name = <<>> \/ name \in DOMAIN all, pkgName |-> name]

\* ResolveTargets among the targets all: the error of a name that is no
\* target's
ResolveTargets(all, args) ==
    [err |-> \E i \in DOMAIN args : args[i] \notin DOMAIN all,
     targets |-> [i \in DOMAIN args |->
                     IF args[i] \in DOMAIN all THEN all[args[i]]
                     ELSE CreateTarget(args[i])]]

OpOf(c, args, force, answers, r, out) ==
    [cmd |-> c, args |-> args, force |-> force, answers |-> answers,
     res |-> r, out |-> out, before |-> targets]

\* newt target create args...
targetCreateCmd(args) ==
    LET r == ResolveNewTargetName(GetTargets(targets), args[1])
        tn == CreateTarget(r.pkgName)
        d == DirOf(tn.pkg)
    IN  /\ IF Len(args) # 1 \/ r.err
           THEN /\ targets' = targets
                /\ op' = OpOf("create", args, FALSE, <<>>, "usage", <<>>)
           ELSE /\ targets' =
                       [x \in DOMAIN targets \cup {d} |->
                           IF x = d
                           THEN TargetDir(TargetSave(tn),
                                          d \in DOMAIN targets /\ targets[d].others)
                           ELSE targets[x]]
                /\ op' = OpOf("create", args, FALSE, <<>>, "ok", <<>>)
        /\ UNCHANGED <<cmdVars, scanVars, mem>>

\* targetContainsUserFiles: [err, userFiles]
targetContainsUserFiles(dirs, tgt) ==
    IF DirOf(tgt.pkg) \notin DOMAIN dirs THEN [err |-> TRUE, userFiles |-> FALSE]
    ELSE [err |-> FALSE,
          userFiles |-> dirs[DirOf(tgt.pkg)].syscfgYml.exists \/ dirs[DirOf(tgt.pkg)].others]

\* targetDelOne with the directory removed whatever the answer is
targetDelOneUnasked(dirs, tgt, force, answer) ==
    LET uf == targetContainsUserFiles(dirs, tgt)
    IN  IF ~force /\ uf.err THEN [err |-> TRUE, dirs |-> dirs]
        ELSE [err |-> FALSE, dirs |-> MapDelete(dirs, DirOf(tgt.pkg))]

\* targetDelOne: [err, dirs]; answer is what PromptYesNo returns
targetDelOne(dirs, tgt, force, answer) ==
    LET uf == targetContainsUserFiles(dirs, tgt)
    IN  IF ~force /\ uf.err THEN [err |-> TRUE, dirs |-> dirs]
        ELSE IF ~force /\ uf.userFiles /\ ~answer THEN [err |-> FALSE, dirs |-> dirs]
        ELSE [err |-> FALSE, dirs |-> MapDelete(dirs, DirOf(tgt.pkg))]

\* the loop of targetDelCmd over the targets
RECURSIVE DelTargets(_, _, _, _)
DelTargets(dirs, ts, force, answers) ==
    IF ts = <<>> THEN [err |-> FALSE, dirs |-> dirs]
    ELSE LET r == targetDelOne(dirs, Head(ts), force, Head(answers))
         IN  IF r.err THEN r
             ELSE DelTargets(r.dirs, Tail(ts), force, Tail(answers))

\* newt target delete [-f] args...
targetDelCmd(args, force, answers) ==
    LET rt == ResolveTargets(GetTargets(targets), args)
        r == DelTargets(targets, rt.targets, force, answers)
    IN  /\ IF Len(args) < 1 \/ rt.err
           THEN /\ targets' = targets
                /\ op' = OpOf("delete", args, force, answers, "usage", <<>>)
           ELSE /\ targets' = r.dirs
                /\ op' = OpOf("delete", args, force, answers,
                              IF r.err THEN "usage" ELSE "ok", <<>>)
        /\ UNCHANGED <<cmdVars, scanVars, mem>>

\* what targetShowCmd prints of one target: its name, and the lines k=v of
\* the variables whose value is not empty, in the order of the sorted keys
ShowTarget(name, tgt) ==
    LET keyOf(x) == TrimPrefix(x, S_targetDot)
        settings == [k \in {keyOf(x) : x \in DOMAIN tgt.TargetY} |->
                        tgt.TargetY[CHOOSE x \in DOMAIN tgt.TargetY : keyOf(x) = k]]
        kv1 == MapSet(settings, S_syscfg,
                      KeyValueToStr(GetValStringMapString(tgt.pkg.SyscfgY, K_syscfgVals)))
        kv2 == MapSet(kv1, S_cflags, pkgVarSliceString(tgt.pkg, S_pkgDot \o S_cflags))
        kv3 == MapSet(kv2, S_cxxflags, pkgVarSliceString(tgt.pkg, S_pkgDot \o S_cxxflags))
        kv4 == MapSet(kv3, S_lflags, pkgVarSliceString(tgt.pkg, S_pkgDot \o S_lflags))
        kvPairs == MapSet(kv4, S_aflags, pkgVarSliceString(tgt.pkg, S_pkgDot \o S_aflags))
        keys == SortStrings(SetToSeq(DOMAIN kvPairs))
        Shown(k) == Len(kvPairs[k]) > 0
        shown == SelectSeq(keys, Shown)
    IN  [name |-> name, lines |-> [i \in DOMAIN shown |-> [k |-> shown[i], v |-> kvPairs[shown[i]]]]]

\* newt target show args...
targetShowCmd(args) ==
    LET all == GetTargets(targets)
        Kept(n) == ~HasSuffix(n, <<"/">> \o S_unittest)
        rt == ResolveTargets(all, args)
        targetNames ==
            SortStrings(IF Len(args) = 0 THEN SelectSeq(SetToSeq(DOMAIN all), Kept)
                        ELSE [i \in DOMAIN args |-> rt.targets[i].pkg.name])
    IN  /\ IF Len(args) # 0 /\ rt.err
           THEN op' = OpOf("show", args, FALSE, <<>>, "usage", <<>>)
           ELSE op' = OpOf("show", args, FALSE, <<>>, "ok",
                           [i \in DOMAIN targetNames |->
                               ShowTarget(targetNames[i], all[targetNames[i]])])
        /\ UNCHANGED <<targets, cmdVars, scanVars, mem>>

\* the user puts a file of their own in a target directory
UserFile ==
    \E d \in DOMAIN targets :
        /\ ~targets[d].others
        /\ targets' = [targets EXCEPT ![d].others = TRUE]
        /\ op' = NoOp
        /\ UNCHANGED <<cmdVars, scanVars, mem>>

\* the names given to the commands: the target, a new name, no name
LifeNames == {TargetName, <<"c">>, <<>>}

\* the local repository holds the target t with flags and target variables,
\* without a syscfg.yml or with one
InitLife ==
    /\ disk = CreatedDisk
    /\ disk0 = disk
    /\ t0 = LoadTarget(TargetBase, disk)
    /\ t = t0
    /\ cmd = NoCmd
    /\ steps = <<>>
    /\ res = "none"
    /\ saved = FALSE
    /\ tree = EmptyTree
    /\ scan = NoScan
    /\ \E syscfgYml \in {NoFile, EditedDisk.syscfgYml} :
           targets =
               (TargetName :>
                    TargetDir([pkgYml |-> YmlFile(<<Scalar(K_name, TargetName),
                                                    Scalar(K_type, S_target),
                                                    Block(S_pkgDot \o S_cflags,
                                                          <<<<"b">>, <<"\"", "-", "a", "\"">>>>),
                                                    Block(S_pkgDot \o S_aflags, <<<<"a">>>>)>>),
                               targetYml |-> YmlFile(<<Native(S_targetDot \o S_bsp, <<"y">>),
                                                       Native(S_targetDot \o S_app, <<"x">>),
                                                       Native(S_targetDot \o S_loader, <<>>)>>),
                               syscfgYml |-> syscfgYml], FALSE))
    /\ op = NoOp
    /\ mem = NoMem

CreateTargets == \E args \in ArgLists(LifeNames) : targetCreateCmd(args)

DeleteTargets ==
    \E args \in ArgLists(LifeNames \ {<<>>}), force \in BOOLEAN :
        \E answers \in [DOMAIN args -> BOOLEAN] : targetDelCmd(args, force, answers)

ShowTargets == \E args \in ArgLists(LifeNames \ {<<>>}) : targetShowCmd(args)

NextLife == CreateTargets \/ DeleteTargets \/ ShowTargets \/ UserFile

SpecLife == InitLife /\ [][NextLife]_vars


\* the keys of the entries of a file, in their order
FileKeys(file) == [i \in DOMAIN file.entries |-> file.entries[i].key]

\* the create command was given one name and the name was free
CreateAccepted ==
    /\ op.cmd = "create"
    /\ Len(op.args) = 1
    /\ ~ResolveNewTargetName(GetTargets(op.before), op.args[1]).err

\* C13 as the specification states it: the pkg.yml of the created target
\* holds the keys pkg.name and pkg.type and no other key.
C13_CreateTwoKeys ==
    CreateAccepted =>
        /\ op.res = "ok"
        /\ op.args[1] \in DOMAIN targets
        /\ FileKeys(targets[op.args[1]].pkgYml) = <<K_name, K_type>>

\* C13: the pkg.yml of the created target holds pkg.name, the name, and
\* pkg.type, target, then pkg.description, pkg.author and pkg.homepage, all
\* three empty, and no other key; a create command whose name is refused ends
\* in the usage error and leaves every directory and file as it was.
C13_CreateManifest ==
    /\ CreateAccepted =>
           /\ op.res = "ok"
           /\ op.args[1] \in DOMAIN targets
           /\ LET f == targets[op.args[1]].pkgYml
                  doc == ReadFile(f).doc
              IN  /\ FileKeys(f) = <<K_name, K_type, K_description, K_author, K_homepage>>
                  /\ doc[K_name] = op.args[1]
                  /\ doc[K_type] = S_target
                  /\ doc[K_description] = <<>>
                  /\ doc[K_author] = <<>>
                  /\ doc[K_homepage] = <<>>
           /\ \A d \in DOMAIN op.before : d # op.args[1] => targets[d] = op.before[d]
    /\ op.cmd = "create" /\ ~CreateAccepted => op.res = "usage" /\ targets = op.before

\* a target is created beside another
C13_Witness ==
    /\ CreateAccepted
    /\ op.args[1] = <<"c">>
    /\ DOMAIN op.before = {TargetName}
    /\ DOMAIN targets = {TargetName, <<"c">>}

\* the directory of a target holds an entry other than pkg.yml and target.yml
UserEntries(dir) == dir.syscfgYml.exists \/ dir.others

\* C14: a delete command removes the directory of a target only with force,
\* or where the directory holds nothing but pkg.yml and target.yml, or where
\* the answer to its prompt was yes, and it changes no directory it does not
\* remove; where every target it is given holds another entry, force is not
\* set and every answer is no, all directories are as they were and the
\* command ends without an error.
C14_DeleteAsked ==
    op.cmd = "delete" =>
        /\ DOMAIN targets \subseteq DOMAIN op.before
        /\ \A d \in DOMAIN targets : targets[d] = op.before[d]
        /\ \A d \in DOMAIN op.before \ DOMAIN targets :
               \/ op.force
               \/ \E i \in DOMAIN op.args :
                      /\ op.args[i] = d
                      /\ ~UserEntries(op.before[d]) \/ op.answers[i]
        /\ ( /\ Len(op.args) >= 1
             /\ ~op.force
             /\ \A i \in DOMAIN op.args :
                    /\ op.args[i] \in DOMAIN op.before
                    /\ UserEntries(op.before[op.args[i]])
                    /\ ~op.answers[i] )
           => targets = op.before /\ op.res = "ok"

\* a delete of two targets with other entries, without force: the first is
\* kept after the answer no, the second is removed after the answer yes
C14_Witness ==
    /\ op.cmd = "delete"
    /\ ~op.force
    /\ op.res = "ok"
    /\ Len(op.args) = 2
    /\ op.args[1] # op.args[2]
    /\ \A i \in 1..2 : op.args[i] \in DOMAIN op.before /\ UserEntries(op.before[op.args[i]])
    /\ ~op.answers[1] /\ op.answers[2]
    /\ op.args[1] \in DOMAIN targets
    /\ op.args[2] \notin DOMAIN targets

\* C17 as the specification states it: show prints of every target the
\* variables in the order of their sorted keys, none with an empty value, and
\* a flag variable as the sorted tokens of its list with one space between
\* them, none before the first and none after the last.
C17_ShowFlags ==
    op.cmd = "show" /\ op.res = "ok" =>
        \A b \in DOMAIN op.out :
            LET ls == op.out[b].lines
                tgt == GetTargets(targets)[op.out[b].name]
            IN  /\ \A i, j \in DOMAIN ls : i < j => LessStr(ls[i].k, ls[j].k)
                /\ \A i \in DOMAIN ls :
                       /\ ls[i].v # <<>>
                       /\ ls[i].k \in AmendFlagKeys =>
                              ls[i].v = Join(SortStrings(GetValStringSlice(
                                                 tgt.pkg.PkgY, S_pkgDot \o ls[i].k)), " ")

\* what show does print: the order of the keys, no empty value, and a flag
\* variable as its sorted tokens with a space after each of them
C17_ShowFlagsSpaced ==
    op.cmd = "show" /\ op.res = "ok" =>
        \A b \in DOMAIN op.out :
            LET ls == op.out[b].lines
                tgt == GetTargets(targets)[op.out[b].name]
            IN  /\ \A i, j \in DOMAIN ls : i < j => LessStr(ls[i].k, ls[j].k)
                /\ \A i \in DOMAIN ls :
                       /\ ls[i].v # <<>>
                       /\ ls[i].k \in AmendFlagKeys =>
                              ls[i].v = Join(SortStrings(GetValStringSlice(
                                                 tgt.pkg.PkgY, S_pkgDot \o ls[i].k)), " ")
                                            \o <<" ">>


(***************************************************************************)
(* the packages of a copy command in memory: Clone and the setters         *)
(***************************************************************************)

MaxObjs == 2

MaxFiles == 4

MaxDescs == 2

\* append of Go on the slice sl of the heap's arrays: in place below the
\* capacity, in a new array of twice the capacity at it
GoAppend(arrs, sl, x) ==
    IF sl.len < sl.cap
    THEN [arrs |-> [arrs EXCEPT ![sl.arr][sl.len + 1] = x],
          sl |-> [sl EXCEPT !.len = sl.len + 1]]
    ELSE LET cap == IF sl.cap = 0 THEN 1 ELSE 2 * sl.cap
             old == IF sl.cap = 0 THEN <<>> ELSE SubSeq(arrs[sl.arr], 1, sl.len)
         IN  [arrs |-> Append(arrs, [i \in 1..cap |->
                                        IF i <= sl.len THEN old[i]
                                        ELSE IF i = sl.len + 1 THEN x ELSE <<>>]),
              sl |-> [arr |-> Len(arrs) + 1, len |-> sl.len + 1, cap |-> cap]]

\* the heap with the package pack, of Load or of NewLocalPackage, in it: its
\* PackageDesc at a new address, its cfgFilenames in a new array
Allocate(m, pack) ==
    [objs |-> Append(m.objs,
                     [repo |-> "local",
                      pkg |-> [pack EXCEPT
                                  !.desc = Len(m.descs) + 1,
                                  !.cfgFilenames =
                                      [arr |-> Len(m.arrs) + 1,
                                       len |-> Len(pack.cfgFilenames),
                                       cap |-> Len(pack.cfgFilenames)]]]),
     descs |-> Append(m.descs, pack.desc),
     arrs |-> Append(m.arrs, pack.cfgFilenames),
     last |-> m.last]

\* what the object i of the heap m shows through its accessors
View(m, i) ==
    LET p == m.objs[i].pkg
    IN  [p EXCEPT !.desc = m.descs[p.desc],
                  !.cfgFilenames = SubSeq(m.arrs[p.cfgFilenames.arr], 1,
                                          p.cfgFilenames.len)]

Views(m) == [i \in DOMAIN m.objs |-> View(m, i)]

LastOf(name, i) == [op |-> name, obj |-> i, before |-> Views(mem)]

\* the project is loaded: the heap holds the package of the target t, whose
\* pkg.yml has a description
InitClone ==
    /\ disk = CreatedDisk
    /\ disk0 = disk
    /\ t0 = LoadTarget(TargetBase, disk)
    /\ t = t0
    /\ cmd = NoCmd
    /\ steps = <<>>
    /\ res = "none"
    /\ saved = FALSE
    /\ tree = EmptyTree
    /\ scan = NoScan
    /\ targets = NoTargets
    /\ op = NoOp
    /\ mem = Allocate([NoMem EXCEPT !.last = [op |-> "Load", obj |-> 1, before |-> <<>>]],
                      LoadLocalPackage(TargetBase,
                          PkgYml(<<Scalar(K_name, TargetName),
                                   Scalar(K_type, S_target),
                                   Scalar(K_author, <<"m", "e">>)>>)).pkg)

\* LocalPackage.Clone: the struct is copied, its pointer and its slice
\* header with it
Clone(m, i, newName) ==
    [m EXCEPT !.objs = Append(@, [repo |-> "new",
                                  pkg |-> [m.objs[i].pkg EXCEPT
                                              !.name = newName,
                                              !.basePath = RepoPath \o <<"/">> \o newName]])]

\* the names a copy command gives to Clone
CloneNames == {<<"c">>, <<"c", "/">>}

\* targetCopyCmd as far as Clone
CloneStep ==
    \E i \in DOMAIN mem.objs, newName \in CloneNames :
        /\ Len(mem.objs) < MaxObjs
        /\ mem' = [Clone(mem, i, newName) EXCEPT !.last = LastOf("Clone", i)]
        /\ UNCHANGED <<cmdVars, scanVars, targets, op>>

AddCfgFilename ==
    \E i \in DOMAIN mem.objs, cfgFilename \in {<<"x">>, <<"y">>} :
        LET r == GoAppend(mem.arrs, mem.objs[i].pkg.cfgFilenames, cfgFilename)
        IN  /\ mem.objs[i].pkg.cfgFilenames.len < MaxFiles
            /\ mem' = [mem EXCEPT !.arrs = r.arrs,
                                  !.objs[i].pkg.cfgFilenames = r.sl,
                                  !.last = LastOf("AddCfgFilename", i)]
            /\ UNCHANGED <<cmdVars, scanVars, targets, op>>

\* SetDesc with a new PackageDesc
SetDesc ==
    \E i \in DOMAIN mem.objs :
        /\ Len(mem.descs) < MaxDescs
        /\ mem' = [mem EXCEPT !.descs = Append(@, EmptyDesc),
                              !.objs[i].pkg.desc = Len(mem.descs) + 1,
                              !.last = LastOf("SetDesc", i)]
        /\ UNCHANGED <<cmdVars, scanVars, targets, op>>

\* a field of the PackageDesc that Desc() returns is written
WriteDesc ==
    \E i \in DOMAIN mem.objs, author \in {<<"y", "o", "u">>} :
        /\ mem.descs[mem.objs[i].pkg.desc].Author # author
        /\ mem' = [mem EXCEPT !.descs[mem.objs[i].pkg.desc].Author = author,
                              !.last = LastOf("WriteDesc", i)]
        /\ UNCHANGED <<cmdVars, scanVars, targets, op>>

SetBasePath ==
    \E i \in DOMAIN mem.objs, basePath \in {RepoPath \o <<"/", ".", "/", "/", "q", "/">>} :
        /\ mem.objs[i].pkg.basePath # Clean(basePath)
        /\ mem' = [mem EXCEPT !.objs[i].pkg.basePath = Clean(basePath),
                              !.last = LastOf("SetBasePath", i)]
        /\ UNCHANGED <<cmdVars, scanVars, targets, op>>

NextClone == CloneStep \/ AddCfgFilename \/ SetDesc \/ WriteDesc \/ SetBasePath

SpecClone == InitClone /\ [][NextClone]_vars

\* C15 as the specification states it: at the moment of cloning the clone
\* shows the documents, the description, the cfg_filenames and the type of
\* its source, and a later AddCfgFilename, SetDesc or write of a description
\* field on one package leaves what every other package shows as it was.
C15_CloneShares ==
    /\ mem.last.op = "Clone" =>
           LET c == View(mem, Len(mem.objs))
               s == View(mem, mem.last.obj)
           IN  [c EXCEPT !.name = s.name, !.basePath = s.basePath] = s
    /\ mem.last.op \in {"AddCfgFilename", "SetDesc", "WriteDesc"} =>
           \A j \in DOMAIN mem.last.before :
               j # mem.last.obj => View(mem, j) = mem.last.before[j]

\* the base path of the object i has forward slashes only, no ., no .., no
\* doubled and no trailing separator
Normalized(i) == mem.objs[i].pkg.basePath = Clean(mem.objs[i].pkg.basePath)

\* C20 as the specification states it: the base path of every package in
\* memory is normalized, whether NewLocalPackage, SetBasePath or Clone
\* assigned it, and the base path of a clone ends with its name.
C20_BasePathNormalized ==
    /\ \A i \in DOMAIN mem.objs : Normalized(i)
    /\ mem.last.op = "Clone" =>
           HasSuffix(mem.objs[Len(mem.objs)].pkg.basePath,
                     mem.objs[Len(mem.objs)].pkg.name)

=============================================================================
